---- MODULE Spec2Model ----
(***************************************************************************)
(* Execution-scheduling engine (execution_algo.py) and dual-track          *)
(* coordinator (base_env.py) of ironcrypto/rlooe.                          *)
(*                                                                         *)
(* Units.  Volumes are integers counting "units"; a tick is `ticks` units  *)
(* (so a quantity that is not a whole number of ticks is representable,    *)
(* e.g. 10.5 ticks = 21 units at ticks = 2).  Arithmetic the code does in  *)
(* binary floating point is modelled as exact arithmetic on these          *)
(* integers (it is exact on dyadic inputs at tick 1.0).  Times are         *)
(* integers counting 50 microseconds (SEC units per second), which makes   *)
(* every jittered bucket width and every hundredth of a bucket exact.      *)
(***************************************************************************)
EXTENDS Integers, Sequences, FiniteSets, TLC

VARIABLES
    call,     \* the pure-function invocation under study: inputs and result
    bmk,      \* broker.benchmark_algo : the TWAPAlgo object (or NoAlgo)
    rl,       \* broker.rl_algo        : the RLAlgo object (or NoAlgo)
    env,      \* the BaseEnv fields (coordinator)
    broker    \* the broker's own state: live orders and trade logs

vars == <<call, bmk, rl, env, broker>>

----------------------------------------------------------------------------
(* Bounds of the model *)

MaxQuantity == 13      \* SpecSplit: quantities 0..MaxQuantity units
MaxParts == 4          \* SpecSplit: n_splits 0..MaxParts
MaxDraws == 5          \* jitter draws one Bucket construction may consume
MaxSlices == 2         \* no_of_slices 0..MaxSlices
MaxResets == 4         \* Spec: reset() calls in one run
MaxFill == 2           \* SpecAlgo: fill quantities -1..MaxFill units per call

----------------------------------------------------------------------------
(* Helpers *)

Abs(x) == IF x < 0 THEN -x ELSE x

RECURSIVE SumSeq(_)
SumSeq(s) == IF Len(s) = 0 THEN 0 ELSE Head(s) + SumSeq(Tail(s))

Last(s) == s[Len(s)]

(* the element of a one-element set.  The({e(x) : x \in {v}}) is e(v) with *)
(* v worked out once: the way an intermediate result of a handler is named *)
The(S) == CHOOSE x \in S : TRUE

NoCall == [fn |-> "none"]
NoAlgo == [kind |-> "none"]
NoEnv == [state |-> "none"]
NoBroker == [state |-> "none"]

----------------------------------------------------------------------------
(* split_across_buckets (execution_algo.py 23-29)                          *)
(*   base_vol, extra_vol = divmod(quantity * int(1/ticks), n_splits)       *)
(*   split[i] = base_vol + ((i * ticks < extra_vol) * ticks)               *)
(* quantity and the result are in units, ticks is the units per tick.      *)
(* divmod on a float quantity keeps the fractional remainder: extra_vol    *)
(* is the real remainder, not its floor.                                   *)

split_remainder_on_last(quantity, n_splits, ticks) ==
    LET base_vol == (quantity \div (ticks * n_splits)) * ticks
        extra_vol == quantity - base_vol * n_splits
    IN [i \in 1..n_splits |->
            base_vol + (IF (n_splits - i) * ticks < extra_vol THEN ticks ELSE 0)]

split_across_buckets(quantity, n_splits, ticks) ==
    LET base_vol == (quantity \div (ticks * n_splits)) * ticks
        extra_vol == quantity - base_vol * n_splits
    IN [i \in 1..n_splits |->
            base_vol + (IF (i - 1) * ticks < extra_vol THEN ticks ELSE 0)]

----------------------------------------------------------------------------
(* Time *)

SEC == 100 * 200        \* time units (50 microseconds) per second

(* BUCKET_SIZES_IN_SECS (execution_algo.py 10-20), in time units; 0 stands *)
(* for a key that is not in the table (KeyError).                          *)
BUCKET_SIZES(key) ==
    CASE key = "1m" -> 7 * SEC
      [] key = "2m" -> 15 * SEC
      [] key = "3m" -> (45 * SEC) \div 2
      [] key = "4m" -> 24 * SEC
      [] key = "5m" -> 30 * SEC
      [] key = "10m" -> 60 * SEC
      [] key = "30m" -> 180 * SEC
      [] key = "1h" -> 300 * SEC
      [] key = "2h" -> 600 * SEC
      [] key = "3h" -> 900 * SEC
      [] key = "4h" -> 1200 * SEC
      [] OTHER -> 0

(* Bucket._bucket_size (execution_algo.py 61-79): the lookup key from the  *)
(* parent order duration; duration_in_m = duration / 60 s.                 *)
_bucket_size(duration) ==
    LET MIN == 60 * SEC
        ceil_duration_in_h == (duration \div (60 * MIN)) + 1
        ceil_m == (duration + MIN - 1) \div MIN
        dur_key ==
            IF duration > 30 * MIN
            THEN (IF ceil_duration_in_h >= 5 THEN "4h"
                  ELSE CASE ceil_duration_in_h = 1 -> "1h"
                         [] ceil_duration_in_h = 2 -> "2h"
                         [] ceil_duration_in_h = 3 -> "3h"
                         [] OTHER -> "4h")
            ELSE IF 10 * MIN < duration /\ duration <= 30 * MIN THEN "30m"
            ELSE IF 5 * MIN < duration /\ duration <= 10 * MIN THEN "10m"
            ELSE CASE ceil_m = 1 -> "1m"
                   [] ceil_m = 2 -> "2m"
                   [] ceil_m = 3 -> "3m"
                   [] ceil_m = 4 -> "4m"
                   [] ceil_m = 5 -> "5m"
                   [] OTHER -> "0m"
    IN BUCKET_SIZES(dur_key)

(* The while loop of Bucket.bucket_bounds (execution_algo.py 87-93).       *)
(* draws is the sequence of values randint(-rand_width, rand_width) will   *)
(* return; the loop stops early when the model's draws are used up.        *)
RECURSIVE b_bounds_loop(_, _, _, _, _)
b_bounds_loop(b_bounds, end_time, bucket_width, rand_width, draws) ==
    IF ~(Last(b_bounds) < end_time) \/ draws = <<>>
    THEN b_bounds
    ELSE LET rand_add == IF rand_width # 0 THEN Head(draws) ELSE 0
             step == (bucket_width * (100 + rand_add)) \div 100
         IN b_bounds_loop(Append(b_bounds, Last(b_bounds) + step),
                          end_time, bucket_width, rand_width, Tail(draws))

(* Bucket.bucket_bounds (execution_algo.py 81-105): the loop, the removal  *)
(* of the bound that reached end_time, end_time appended.                  *)
bucket_bounds(start_time, end_time, bucket_width, rand_width, draws) ==
    LET looped == b_bounds_loop(<<start_time>>, end_time, bucket_width, rand_width, draws)
        kept == IF Last(looped) >= end_time
                THEN SubSeq(looped, 1, Len(looped) - 1)
                ELSE looped
    IN Append(kept, end_time)

(* Whether the loop above left its while condition within the draws given *)
bounds_loop_ended(start_time, end_time, bucket_width, rand_width, draws) ==
    Last(b_bounds_loop(<<start_time>>, end_time, bucket_width, rand_width, draws)) >= end_time

(* The draws the loop did not consume are 0: one sequence per run of the   *)
(* loop, not one per unused tail.                                          *)
draws_used_up(start_time, end_time, rand_width, draws) ==
    LET duration == end_time - start_time
        used == IF duration < 0 \/ _bucket_size(duration) = 0 THEN 0
                ELSE Len(b_bounds_loop(<<start_time>>, end_time,
                                       _bucket_size(duration), rand_width, draws)) - 1
    IN \A i \in (used + 1)..Len(draws) : draws[i] = 0

(* Bucket.__init__ (execution_algo.py 51-59) *)
Bucket(start_time, end_time, rand_width, draws) ==
    LET duration == end_time - start_time
        bucket_width == _bucket_size(duration)
    IN IF duration < 0 THEN [raised |-> "ValueError"]
       ELSE IF bucket_width = 0 THEN [raised |-> "KeyError"]
       ELSE LET b == bucket_bounds(start_time, end_time, bucket_width, rand_width, draws)
            IN [raised |-> "no",
                start_time |-> start_time,
                end_time |-> end_time,
                bucket_width |-> bucket_width,
                rand_width |-> rand_width,
                bucket_bounds |-> b,
                n_buckets |-> Len(b) - 1]

(* BaseEnv._validate_config (base_env.py 433-437): the two checks of the   *)
(* jitter range; TRUE when the configuration is accepted.                  *)
rand_bucket_config_ok(rand_bucket_low, rand_bucket_high) ==
    /\ ~(rand_bucket_low > rand_bucket_high)
    /\ ~(rand_bucket_low < 0 \/ rand_bucket_high > 100)

----------------------------------------------------------------------------
(* TWAPAlgo: the benchmark schedule *)

RECURSIVE SortedSeq(_)
SortedSeq(S) ==
    IF S = {} THEN <<>>
    ELSE LET m == CHOOSE x \in S : \A y \in S : x <= y
         IN <<m>> \o SortedSeq(S \ {m})

Range(s) == {s[i] : i \in DOMAIN s}

RECURSIVE Flatten(_)
Flatten(ss) == IF Len(ss) = 0 THEN <<>> ELSE Head(ss) \o Flatten(Tail(ss))

(* a split of the whole volume over all buckets alike *)
_split_volume_across_all_buckets(volume, b_bounds, ticks) ==
    split_across_buckets(volume, Len(b_bounds) - 1, ticks)

(* TWAPAlgo._split_volume_across_buckets (execution_algo.py 329-342):      *)
(* the last bucket gets floor(volume * share of the last bucket) in ticks, *)
(* the rest is split over the other n_buckets - 1 buckets.                 *)
_split_volume_across_buckets(volume, b_bounds, ticks) ==
    LET n == Len(b_bounds)
        last_bucket == b_bounds[n] - b_bounds[n - 1]
        whole == b_bounds[n] - b_bounds[1]
        vol_last_bucket == ((volume * last_bucket) \div (ticks * whole)) * ticks
    IN split_across_buckets(volume - vol_last_bucket, n - 2, ticks)
           \o <<vol_last_bucket>>

(* the check of TWAPAlgo.__init__ (execution_algo.py 319-320, 325-326):    *)
(* TRUE when the ValueError is raised                                      *)
split_didnt_work_out(total, volume, ticks) == Abs(total - volume) > ticks

(* _get_execution_times (execution_algo.py 32-38): the decision times of   *)
(* bucket idx (1-based here) for the placements the placement function     *)
(* returned, given in hundredths.                                          *)
_get_execution_times(b_bounds, idx, sample_placements) ==
    LET t_diff == b_bounds[idx + 1] - b_bounds[idx]
    IN [k \in DOMAIN sample_placements |->
            b_bounds[idx] + (t_diff * sample_placements[k]) \div 100]

(* the exit test of the resampling loop of _sample_execution_times         *)
(* (execution_algo.py 164-165): TRUE when bucket_trades is kept            *)
bucket_trades_kept_any(bucket_trades, no_of_slices, b_bounds) ==
    ~(Cardinality(Range(bucket_trades)) < no_of_slices)

bucket_trades_kept(bucket_trades, no_of_slices, b_bounds) ==
    ~(\/ Cardinality(Range(bucket_trades)) < no_of_slices
      \/ \E k \in DOMAIN bucket_trades : bucket_trades[k] \in Range(b_bounds))

(* ExecutionAlgo._sample_execution_times (execution_algo.py 158-170) for   *)
(* the placements kept per bucket: execution_times and algo_events         *)
_sample_execution_times(b_bounds, placements) ==
    LET exec_times == [i \in 1..(Len(b_bounds) - 1) |->
                          _get_execution_times(b_bounds, i, placements[i])]
    IN [execution_times |-> exec_times,
        algo_events |-> SortedSeq(Range(Flatten(exec_times))
                                   \cup Range(Tail(b_bounds)))]

(* TWAPAlgo._split_volume_within_buckets (execution_algo.py 344-354) *)
split_within_buckets_shifted(bucket_volumes, no_of_slices, ticks) ==
    [i \in DOMAIN bucket_volumes |->
        split_across_buckets(
            bucket_volumes[IF i = 1 THEN Len(bucket_volumes) ELSE i - 1],
            no_of_slices, ticks)]

_split_volume_within_buckets(bucket_volumes, no_of_slices, ticks) ==
    [i \in DOMAIN bucket_volumes |->
        split_across_buckets(bucket_volumes[i], no_of_slices, ticks)]

(* TWAPAlgo.__init__ (execution_algo.py 317-326), the volumes: the split   *)
(* across buckets and its check, the split within buckets and its check.   *)
(* A split over no bucket or no slice divides by zero.                     *)
split_volumes_unchecked(volume, no_of_slices, b_bounds, ticks) ==
    IF Len(b_bounds) - 2 = 0 \/ no_of_slices = 0
    THEN [raised |-> "ZeroDivisionError"]
    ELSE LET n == Len(b_bounds)
             vol_last_bucket ==
                 ((volume * (b_bounds[n] - b_bounds[n - 1]))
                      \div (ticks * (b_bounds[n] - b_bounds[1]))) * ticks
             bucket_vol == split_across_buckets(volume, n - 2, ticks)
                               \o <<vol_last_bucket>>
         IN [raised |-> "no",
             bucket_volumes |-> bucket_vol,
             volumes_per_trade |->
                 _split_volume_within_buckets(bucket_vol, no_of_slices, ticks)]

(* a split that gives a single bucket the whole volume instead of dividing *)
(* by the number of the other buckets                                      *)
split_volumes_single_bucket(volume, no_of_slices, b_bounds, ticks) ==
    IF no_of_slices = 0 THEN [raised |-> "ZeroDivisionError"]
    ELSE IF Len(b_bounds) - 2 = 0
    THEN [raised |-> "no",
          bucket_volumes |-> <<volume>>,
          volumes_per_trade |->
              _split_volume_within_buckets(<<volume>>, no_of_slices, ticks)]
    ELSE split_volumes_unchecked(volume, no_of_slices, b_bounds, ticks)

split_volumes(volume, no_of_slices, b_bounds, ticks) ==
    IF Len(b_bounds) - 2 = 0 THEN [raised |-> "ZeroDivisionError"]
    ELSE LET bucket_vol == _split_volume_across_buckets(volume, b_bounds, ticks)
         IN IF split_didnt_work_out(SumSeq(bucket_vol), volume, ticks)
            THEN [raised |-> "ValueError"]
            ELSE IF no_of_slices = 0 THEN [raised |-> "ZeroDivisionError"]
            ELSE LET split_vols == _split_volume_within_buckets(
                                       bucket_vol, no_of_slices, ticks)
                 IN IF split_didnt_work_out(SumSeq(Flatten(split_vols)), volume, ticks)
                    THEN [raised |-> "ValueError"]
                    ELSE [raised |-> "no",
                          bucket_volumes |-> bucket_vol,
                          volumes_per_trade |-> split_vols]

(* TWAPAlgo.__init__ (execution_algo.py 304-327) with ExecutionAlgo's      *)
(* (123-142).  ticks is the tick size read off the first book snapshot,    *)
(* draws the jitter draws, placements the kept placement of each bucket.   *)
TWAPAlgo(trade_direction, volume, no_of_slices, start_time, end_time, rand_bucket_bounds_width, ticks, draws, placements) ==
    LET buckets == Bucket(start_time, end_time, rand_bucket_bounds_width, draws)
        failed(e) == [kind |-> "TWAPAlgo", raised |-> e]
    IN IF buckets.raised # "no" THEN failed(buckets.raised)
       ELSE LET b == buckets.bucket_bounds
                vols == split_volumes(volume, no_of_slices, b, ticks)
                sampled == _sample_execution_times(b, placements)
            IN IF vols.raised # "no" THEN failed(vols.raised)
               ELSE [kind |-> "TWAPAlgo",
                     raised |-> "no",
                     trade_direction |-> trade_direction,
                     volume |-> volume,
                     no_of_slices |-> no_of_slices,
                     tick_size |-> ticks,
                     buckets |-> buckets,
                     bucket_volumes |-> vols.bucket_volumes,
                     execution_times |-> sampled.execution_times,
                     algo_events |-> sampled.algo_events,
                     volumes_per_trade |-> vols.volumes_per_trade,
                     volumes_per_trade_default |-> vols.volumes_per_trade]

----------------------------------------------------------------------------
(* ExecutionAlgo: the operations shared by both schedules.  Cursors keep   *)
(* the code's 0-based values; sequences are indexed from 1.                *)

ZeroTable(table) == [i \in DOMAIN table |-> [j \in DOMAIN table[i] |-> 0]]

(* a reset that gives every schedule the default table *)
reset_to_default_table(algo) ==
    [volumes_per_trade |-> algo.volumes_per_trade_default,
     vol_remaining |-> algo.volume,
     bucket_vol_remaining |-> algo.bucket_volumes,
     event_idx |-> 0,
     order_idx |-> 0,
     bucket_idx |-> 0] @@ algo

(* ExecutionAlgo.reset (execution_algo.py 144-156) *)
reset(algo) ==
    [volumes_per_trade |-> IF algo.kind # "RLAlgo"
                           THEN algo.volumes_per_trade_default
                           ELSE ZeroTable(algo.volumes_per_trade_default),
     vol_remaining |-> algo.volume,
     bucket_vol_remaining |-> algo.bucket_volumes,
     event_idx |-> 0,
     order_idx |-> 0,
     bucket_idx |-> 0] @@ algo

(* RLAlgo.__init__ starting from the benchmark's allocation table *)
RLAlgo_with_benchmark_table(benchmark_algo) ==
    [kind |-> "RLAlgo",
     raised |-> "no",
     trade_direction |-> benchmark_algo.trade_direction,
     volume |-> benchmark_algo.volume,
     no_of_slices |-> benchmark_algo.no_of_slices,
     tick_size |-> benchmark_algo.tick_size,
     buckets |-> benchmark_algo.buckets,
     bucket_volumes |-> benchmark_algo.bucket_volumes,
     execution_times |-> benchmark_algo.execution_times,
     algo_events |-> benchmark_algo.algo_events,
     volumes_per_trade |-> benchmark_algo.volumes_per_trade,
     volumes_per_trade_default |-> benchmark_algo.volumes_per_trade_default,
     vol_remaining |-> benchmark_algo.volume,
     bucket_vol_remaining |-> benchmark_algo.bucket_volumes,
     event_idx |-> 0,
     order_idx |-> 0,
     bucket_idx |-> 0]

(* RLAlgo.__init__ (execution_algo.py 357-380), for the arguments          *)
(* BaseEnv.reset passes: the benchmark's own direction, volume and slices  *)
RLAlgo(benchmark_algo) ==
    [kind |-> "RLAlgo",
     raised |-> "no",
     trade_direction |-> benchmark_algo.trade_direction,
     volume |-> benchmark_algo.volume,
     no_of_slices |-> benchmark_algo.no_of_slices,
     tick_size |-> benchmark_algo.tick_size,
     buckets |-> benchmark_algo.buckets,
     bucket_volumes |-> benchmark_algo.bucket_volumes,
     execution_times |-> benchmark_algo.execution_times,
     algo_events |-> benchmark_algo.algo_events,
     volumes_per_trade |-> ZeroTable(benchmark_algo.volumes_per_trade_default),
     volumes_per_trade_default |-> benchmark_algo.volumes_per_trade_default,
     vol_remaining |-> benchmark_algo.volume,
     bucket_vol_remaining |-> benchmark_algo.bucket_volumes,
     event_idx |-> 0,
     order_idx |-> 0,
     bucket_idx |-> 0]

(* get_next_event with a cursor that stays on the last event *)
get_next_event_no_wrap(algo) ==
    LET event_time == algo.algo_events[algo.event_idx + 1]
        event_type ==
            IF \E i \in DOMAIN algo.execution_times :
                   event_time \in Range(algo.execution_times[i])
            THEN "order_placement" ELSE "bucket_bound"
        last == algo.event_idx = Len(algo.algo_events) - 1
    IN [event |-> [type |-> event_type, time |-> event_time],
        done |-> last,
        algo |-> [algo EXCEPT !.event_idx = IF last THEN @ ELSE @ + 1]]

(* ExecutionAlgo.get_next_event (execution_algo.py 172-189): the event,    *)
(* done, and the schedule with its event cursor moved                      *)
get_next_event(algo) ==
    LET event_time == algo.algo_events[algo.event_idx + 1]
        event_type ==
            IF \E i \in DOMAIN algo.execution_times :
                   event_time \in Range(algo.execution_times[i])
            THEN "order_placement" ELSE "bucket_bound"
        last == algo.event_idx = Len(algo.algo_events) - 1
    IN [event |-> [type |-> event_type, time |-> event_time],
        done |-> last,
        algo |-> [algo EXCEPT !.event_idx = IF last THEN 0 ELSE @ + 1]]

(* get_order_at_event with a market order for the global remaining volume *)
get_order_at_event_whole_volume(algo, event) ==
    LET side == IF algo.trade_direction = 1 THEN "bid" ELSE "ask"
        wrap(a) == IF a.order_idx >= a.no_of_slices
                   THEN [a EXCEPT !.order_idx = 0] ELSE a
    IN IF event.type \notin {"order_placement", "bucket_bound"}
       THEN [raised |-> "ValueError", algo |-> algo]
       ELSE IF algo.bucket_idx >= Len(algo.bucket_volumes)
       THEN [raised |-> "IndexError", algo |-> algo]
       ELSE IF event.type = "order_placement"
       THEN [raised |-> "no",
             order |-> [type |-> "limit", timestamp |-> event.time, side |-> side,
                        quantity |-> algo.volumes_per_trade[algo.bucket_idx + 1]
                                                           [algo.order_idx + 1]],
             algo |-> wrap([algo EXCEPT !.order_idx = @ + 1])]
       ELSE [raised |-> "no",
             order |-> [type |-> "market", timestamp |-> event.time, side |-> side,
                        quantity |-> algo.vol_remaining],
             algo |-> wrap(algo)]

(* ExecutionAlgo.get_order_at_event (execution_algo.py 191-228): the order *)
(* (its price, read off the book, is left out) and the schedule with its   *)
(* slice cursor moved; reading past the last bucket is an IndexError.      *)
get_order_at_event(algo, event) ==
    LET side == IF algo.trade_direction = 1 THEN "bid" ELSE "ask"
        wrap(a) == IF a.order_idx >= a.no_of_slices
                   THEN [a EXCEPT !.order_idx = 0] ELSE a
    IN IF event.type \notin {"order_placement", "bucket_bound"}
       THEN [raised |-> "ValueError", algo |-> algo]
       ELSE IF algo.bucket_idx >= Len(algo.bucket_volumes)
       THEN [raised |-> "IndexError", algo |-> algo]
       ELSE IF event.type = "order_placement"
       THEN [raised |-> "no",
             order |-> [type |-> "limit", timestamp |-> event.time, side |-> side,
                        quantity |-> algo.volumes_per_trade[algo.bucket_idx + 1]
                                                           [algo.order_idx + 1]],
             algo |-> wrap([algo EXCEPT !.order_idx = @ + 1])]
       ELSE [raised |-> "no",
             order |-> [type |-> "market", timestamp |-> event.time, side |-> side,
                        quantity |-> algo.bucket_vol_remaining[algo.bucket_idx + 1]],
             algo |-> wrap(algo)]

(* ExecutionAlgo.update_remaining_volume (execution_algo.py 230-239).      *)
(* trade_log is NoLog (None) or a record with a quantity.  The decrement   *)
(* is done before the check: a raise leaves the decremented counters.      *)
NoLog == [message |-> "none"]

(* the decrement of update_remaining_volume taking the fill off the global *)
(* counter only                                                            *)
urv_decrement_global_only(algo, trade_log) ==
    IF trade_log # NoLog /\ trade_log.quantity > 0
    THEN [algo EXCEPT !.vol_remaining = @ - trade_log.quantity]
    ELSE algo

urv_decrement(algo, trade_log) ==
    IF trade_log # NoLog /\ trade_log.quantity > 0
    THEN [algo EXCEPT !.vol_remaining = @ - trade_log.quantity,
                      !.bucket_vol_remaining[algo.bucket_idx + 1] = @ - trade_log.quantity]
    ELSE algo

more_volume_than_available_no_bucket(algo) ==
    algo.vol_remaining < -algo.tick_size * Len(algo.bucket_volumes)

more_volume_than_available(algo) ==
    \/ algo.vol_remaining < -algo.tick_size * Len(algo.bucket_volumes)
    \/ algo.bucket_vol_remaining[algo.bucket_idx + 1] < -algo.tick_size

(* update_remaining_volume moving the bucket cursor at every event kind *)
update_remaining_volume_any_event(algo, trade_log, event_type) ==
    IF algo.bucket_idx >= Len(algo.bucket_volumes)
    THEN IF trade_log # NoLog /\ trade_log.quantity > 0
         THEN [raised |-> "IndexError",
               algo |-> [algo EXCEPT !.vol_remaining = @ - trade_log.quantity]]
         ELSE IF algo.vol_remaining < -algo.tick_size * Len(algo.bucket_volumes)
         THEN [raised |-> "ValueError", algo |-> algo]
         ELSE [raised |-> "IndexError", algo |-> algo]
    ELSE LET dec == urv_decrement(algo, trade_log)
         IN IF more_volume_than_available(dec)
            THEN [raised |-> "ValueError", algo |-> dec]
            ELSE [raised |-> "no",
                  algo |-> IF event_type # "none"
                           THEN [dec EXCEPT !.bucket_idx = @ + 1] ELSE dec]

update_remaining_volume(algo, trade_log, event_type) ==
    IF algo.bucket_idx >= Len(algo.bucket_volumes)
    THEN \* past the last bucket: the global counter is decremented and
         \* compared before bucket_vol_remaining[bucket_idx] is read
         IF trade_log # NoLog /\ trade_log.quantity > 0
         THEN [raised |-> "IndexError",
               algo |-> [algo EXCEPT !.vol_remaining = @ - trade_log.quantity]]
         ELSE IF algo.vol_remaining < -algo.tick_size * Len(algo.bucket_volumes)
         THEN [raised |-> "ValueError", algo |-> algo]
         ELSE [raised |-> "IndexError", algo |-> algo]
    ELSE LET dec == urv_decrement(algo, trade_log)
         IN IF more_volume_than_available(dec)
            THEN [raised |-> "ValueError", algo |-> dec]
            ELSE [raised |-> "no",
                  algo |-> IF event_type = "bucket_bound"
                           THEN [dec EXCEPT !.bucket_idx = @ + 1] ELSE dec]

----------------------------------------------------------------------------
(* Inputs the specifications draw from *)

SplitTicks == {1, 2, 4}                      \* units per tick
SplitQuantities == (0..MaxQuantity) \cup {1000}

StartTimes == {0, 3 * SEC}
Durations == {-1 * SEC, 0, 7 * SEC, 8 * SEC, 15 * SEC, 22 * SEC}
TWAPDurations == {-1 * SEC, 0, 7 * SEC, 8 * SEC, 15 * SEC}
CandidateWidths == {0, 50, 100, 150}
(* the widths randint(rand_bucket_low, rand_bucket_high) can return under  *)
(* a configuration _validate_config accepts                                *)
JitterWidths == {w \in CandidateWidths : rand_bucket_config_ok(w, w)}
(* values of randint(-rand_width, rand_width): both ends and the middle    *)
JitterDraws(rand_width) == {-rand_width, 0, rand_width}
DrawSeqs(rand_width) ==
    IF rand_width = 0 THEN {[i \in 1..MaxDraws |-> 0]}
    ELSE [1..MaxDraws -> JitterDraws(rand_width)]

TickSizes == {1, 10}      \* units per tick: tick 0.1 or finer / tick 1.0
Volumes == {7, 25, 30}
PlacementFracs == {0, 25, 50, 75, 100}           \* hundredths of a bucket
(* outputs of a placement function: no_of_slices sorted fractions          *)
Placements(fracs, no_of_slices) ==
    {p \in [1..no_of_slices -> fracs] :
        \A i \in 1..(no_of_slices - 1) : p[i] <= p[i + 1]}

----------------------------------------------------------------------------
(* SpecSplit: split_across_buckets applied to drawn inputs *)

InitSplit ==
    /\ call \in {[fn |-> "split_across_buckets", quantity |-> q, n_splits |-> n,
                  ticks |-> t, returned |-> FALSE, raised |-> "no", out |-> <<>>] :
                    q \in SplitQuantities, n \in 0..MaxParts, t \in SplitTicks}
    /\ bmk = NoAlgo /\ rl = NoAlgo /\ env = NoEnv /\ broker = NoBroker

CallSplit ==
    /\ call.fn = "split_across_buckets" /\ ~call.returned
    /\ call' = IF call.n_splits = 0
               THEN [call EXCEPT !.returned = TRUE, !.raised = "ZeroDivisionError"]
               ELSE [call EXCEPT !.returned = TRUE,
                                 !.out = split_across_buckets(call.quantity,
                                                              call.n_splits, call.ticks)]
    /\ UNCHANGED <<bmk, rl, env, broker>>

NextSplit == CallSplit

SpecSplit == InitSplit /\ [][NextSplit]_vars

----------------------------------------------------------------------------
(* SpecBucket: Bucket(start_time, end_time, rand_width) on drawn inputs *)

InitBucket ==
    /\ call \in {[fn |-> "Bucket", start_time |-> st, end_time |-> st + d,
                  rand_width |-> w, draws |-> dr, returned |-> FALSE,
                  out |-> [raised |-> "no"]] :
                    st \in StartTimes, d \in Durations, w \in JitterWidths,
                    dr \in UNION {DrawSeqs(x) : x \in JitterWidths}}
    /\ call.draws \in DrawSeqs(call.rand_width)
    /\ draws_used_up(call.start_time, call.end_time, call.rand_width, call.draws)
    /\ \/ call.end_time - call.start_time < 0
       \/ _bucket_size(call.end_time - call.start_time) = 0
       \/ bounds_loop_ended(call.start_time, call.end_time,
                            _bucket_size(call.end_time - call.start_time),
                            call.rand_width, call.draws)
    /\ bmk = NoAlgo /\ rl = NoAlgo /\ env = NoEnv /\ broker = NoBroker

CallBucket ==
    /\ call.fn = "Bucket" /\ ~call.returned
    /\ call' = [call EXCEPT !.returned = TRUE,
                            !.out = Bucket(call.start_time, call.end_time,
                                           call.rand_width, call.draws)]
    /\ UNCHANGED <<bmk, rl, env, broker>>

NextBucket == CallBucket

SpecBucket == InitBucket /\ [][NextBucket]_vars

----------------------------------------------------------------------------
(* SpecTWAP: TWAPAlgo(...) constructed from drawn arguments.  The          *)
(* placement of each bucket is the sample the resampling loop kept.        *)

(* the placements of bucket i that leave the resampling loop *)
KeptPlacements(fracs, b_bounds, i, no_of_slices) ==
    {p \in Placements(fracs, no_of_slices) :
        bucket_trades_kept(_get_execution_times(b_bounds, i, p), no_of_slices, b_bounds)}

(* the draws a Bucket construction consumes, all of them and no more *)
DrawsConsumed(st, d, w, dr) ==
    LET bk == Bucket(st, st + d, w, dr)
    IN /\ bk.raised = "no" =>
              bounds_loop_ended(st, st + d, bk.bucket_width, w, dr)
       /\ draws_used_up(st, st + d, w, dr)

(* one kept placement for each bucket; none when the resampling loop of a  *)
(* bucket cannot end                                                       *)
KeptChoices(fracs, st, d, w, dr, ns) ==
    LET bk == Bucket(st, st + d, w, dr)
        nb == IF bk.raised = "no" THEN bk.n_buckets ELSE 0
        kept == [i \in 1..nb |-> KeptPlacements(fracs, bk.bucket_bounds, i, ns)]
    IN {p \in [1..nb -> UNION {kept[i] : i \in 1..nb}] :
           \A i \in 1..nb : p[i] \in kept[i]}

ConstructTWAP(dirs, vols, slices, starts, durs, widths, tickset, fracs) ==
    \E ns \in slices, st \in starts, d \in durs, w \in widths :
      \E dr \in DrawSeqs(w) :
        /\ DrawsConsumed(st, d, w, dr)
        /\ \E pl \in KeptChoices(fracs, st, d, w, dr, ns) :
             \E td \in dirs, v \in vols, t \in tickset :
                bmk' = TWAPAlgo(td, v, ns, st, st + d, w, t, dr, pl)

(* the same constructions as a set: what TWAPAlgo(...) can return (a       *)
(* failed construction included) for arguments of the given sets           *)
TWAPAlgos(dirs, vols, slices, starts, durs, widths, tickset, fracs) ==
    UNION {
      UNION {
        IF DrawsConsumed(st, d, w, dr)
        THEN {TWAPAlgo(td, v, ns, st, st + d, w, t, dr, pl) :
                 td \in dirs, v \in vols, t \in tickset,
                 pl \in KeptChoices(fracs, st, d, w, dr, ns)}
        ELSE {} :
        dr \in DrawSeqs(w)} :
      ns \in slices, st \in starts, d \in durs, w \in widths}

(* the call about to be made: the arguments the coordinator has drawn *)
InitTWAP ==
    /\ call \in {[fn |-> "TWAPAlgo", no_of_slices |-> ns, start_time |-> 0,
                  end_time |-> d, rand_bucket_bounds_width |-> w] :
                    ns \in 0..MaxSlices, d \in TWAPDurations, w \in JitterWidths}
    /\ bmk = NoAlgo /\ rl = NoAlgo /\ env = NoEnv /\ broker = NoBroker

NewTWAPAlgo ==
    /\ bmk = NoAlgo
    /\ ConstructTWAP({1, -1}, Volumes, {call.no_of_slices}, {call.start_time},
                     {call.end_time - call.start_time},
                     {call.rand_bucket_bounds_width}, TickSizes, PlacementFracs)
    /\ UNCHANGED <<call, rl, env, broker>>

NextTWAP == NewTWAPAlgo

SpecTWAP == InitTWAP /\ [][NextTWAP]_vars

Constructed(algo) == algo.kind # "none" /\ algo.raised = "no"

----------------------------------------------------------------------------
(* Claims *)

\* C2: for every successfully constructed benchmark schedule the sum of the
\* bucket volumes differs from the parent order's volume by at most one tick.
C2_BucketVolumesSumToVolume ==
    Constructed(bmk) =>
        Abs(SumSeq(bmk.bucket_volumes) - bmk.volume) <= bmk.tick_size

\* a schedule was built whose bucket volumes do not sum to the volume exactly
C2_Witness ==
    /\ Constructed(bmk)
    /\ bmk.buckets.n_buckets >= 3
    /\ SumSeq(bmk.bucket_volumes) # bmk.volume

\* C3: for every successfully constructed benchmark schedule and every bucket
\* i, the slice volumes of row i of the allocation table sum to
\* bucket_volumes[i] within one tick.
C3_SlicesSumToBucketVolume ==
    Constructed(bmk) =>
        \A i \in DOMAIN bmk.bucket_volumes :
            Abs(SumSeq(bmk.volumes_per_trade[i]) - bmk.bucket_volumes[i])
                <= bmk.tick_size

\* a schedule with two slices per bucket, buckets of different volume and a
\* bucket whose volume does not split evenly
C3_Witness ==
    /\ Constructed(bmk)
    /\ bmk.no_of_slices = 2
    /\ bmk.bucket_volumes[1] > bmk.bucket_volumes[bmk.buckets.n_buckets] + bmk.tick_size
    /\ \E i \in DOMAIN bmk.bucket_volumes :
           bmk.volumes_per_trade[i][1] # bmk.volumes_per_trade[i][2]

\* C4: for quantity >= 0, n_parts >= 1 and every tick size the splitter
\* returns n_parts parts, each a non-negative multiple of the tick, that sum
\* to the quantity rounded down to the nearest tick.
C4_PartsSumToQuantityRoundedDown ==
    (call.fn = "split_across_buckets" /\ call.returned /\ call.n_splits >= 1) =>
        /\ Len(call.out) = call.n_splits
        /\ \A i \in 1..call.n_splits :
               call.out[i] >= 0 /\ call.out[i] % call.ticks = 0
        /\ SumSeq(call.out) = (call.quantity \div call.ticks) * call.ticks

C6_BoundsStrictlyIncreasing ==
    (/\ call.fn = "Bucket" /\ call.returned
     /\ call.start_time < call.end_time
     /\ rand_bucket_config_ok(call.rand_width, call.rand_width)) =>
        /\ call.out.raised = "no"
        /\ \A i \in 1..(Len(call.out.bucket_bounds) - 1) :
               call.out.bucket_bounds[i] < call.out.bucket_bounds[i + 1]
        /\ call.out.bucket_bounds[1] = call.start_time
        /\ Last(call.out.bucket_bounds) = call.end_time

\* C7: in every constructed benchmark schedule no two decision timestamps are
\* equal, within a bucket or across buckets, and none is a bucket boundary.
C7_DecisionTimesDistinctOffBounds ==
    Constructed(bmk) =>
        LET flat == Flatten(bmk.execution_times)
        IN /\ \A i, j \in DOMAIN flat : i # j => flat[i] # flat[j]
           /\ \A i \in DOMAIN flat : flat[i] \notin Range(bmk.buckets.bucket_bounds)

\* a schedule of three buckets with two decision times each
C7_Witness ==
    /\ Constructed(bmk)
    /\ bmk.buckets.n_buckets = 3
    /\ bmk.no_of_slices = 2
    /\ Len(Flatten(bmk.execution_times)) = 6

----------------------------------------------------------------------------
(* SpecAlgo: one schedule driven through its public operations in any      *)
(* order and with any arguments, until a call raises.  The schedule is the *)
(* benchmark, or an adaptive schedule derived from it right after it was   *)
(* built.  TWAPAlgo.__init__ sets no cursors: until reset() is called the  *)
(* other operations fail on the missing attribute.                         *)

AlgoVolumes == {5}
AlgoDurations == {8 * SEC, 15 * SEC}
AlgoPlacementFracs == {25, 50}
TradeLogs == {NoLog} \cup {[message |-> "trade", quantity |-> q] : q \in -1..MaxFill}
EventTypes == {"order_placement", "bucket_bound", "no_such_type"}
NoResult == [type |-> "none"]
NoArgs == [type |-> "none"]

Target == IF call.target = "bmk" THEN bmk ELSE rl

SetTarget(algo) ==
    /\ bmk' = IF call.target = "bmk" THEN algo ELSE bmk
    /\ rl' = IF call.target = "rl" THEN algo ELSE rl

HasCursors(algo) == "bucket_idx" \in DOMAIN algo

Callable == call.fn # "none" /\ call.raised = "no"

Returned(fn, args, raised, result) ==
    call' = [fn |-> fn, target |-> call.target, args |-> args, raised |-> raised,
             result |-> result]

AttributeError(fn) ==
    /\ Returned(fn, NoArgs, "AttributeError", NoResult)
    /\ UNCHANGED <<bmk, rl>>

InitAlgo ==
    /\ call = NoCall /\ bmk = NoAlgo /\ rl = NoAlgo /\ env = NoEnv /\ broker = NoBroker

AlgoNewTWAP ==
    /\ call = NoCall
    /\ ConstructTWAP({1}, AlgoVolumes, 1..MaxSlices, {0}, AlgoDurations, {0}, {1},
                     AlgoPlacementFracs)
    /\ Constructed(bmk')
    /\ call' = [fn |-> "TWAPAlgo", target |-> "bmk", args |-> NoArgs, raised |-> "no",
                result |-> NoResult]
    /\ UNCHANGED <<rl, env, broker>>

AlgoNewRL ==
    /\ call.fn = "TWAPAlgo"
    /\ rl' = RLAlgo(bmk)
    /\ call' = [fn |-> "RLAlgo", target |-> "rl", args |-> NoArgs, raised |-> "no",
                result |-> NoResult]
    /\ UNCHANGED <<bmk, env, broker>>

AlgoReset ==
    /\ Callable
    /\ SetTarget(reset(Target))
    /\ Returned("reset", NoArgs, "no", NoResult)
    /\ UNCHANGED <<env, broker>>

AlgoGetNextEvent ==
    /\ Callable
    /\ IF ~HasCursors(Target) THEN AttributeError("get_next_event")
       ELSE LET r == get_next_event(Target)
            IN /\ SetTarget(r.algo)
               /\ Returned("get_next_event", NoArgs, "no",
                           [type |-> "event", event |-> r.event, done |-> r.done])
    /\ UNCHANGED <<env, broker>>

AlgoGetOrderAtEvent ==
    /\ Callable
    /\ IF ~HasCursors(Target) THEN AttributeError("get_order_at_event")
       ELSE \E ty \in EventTypes :
              LET event == [type |-> ty,
                            time |-> Target.algo_events[Target.event_idx + 1]]
                  r == get_order_at_event(Target, event)
              IN /\ SetTarget(r.algo)
                 /\ Returned("get_order_at_event", [event |-> event], r.raised,
                             IF r.raised = "no"
                             THEN [type |-> "order", order |-> r.order]
                             ELSE NoResult)
    /\ UNCHANGED <<env, broker>>

AlgoUpdateRemainingVolume ==
    /\ Callable
    /\ IF ~HasCursors(Target) THEN AttributeError("update_remaining_volume")
       ELSE \E trade_log \in TradeLogs, ty \in {"none", "order_placement", "bucket_bound"} :
              LET r == update_remaining_volume(Target, trade_log, ty)
              IN /\ SetTarget(r.algo)
                 /\ Returned("update_remaining_volume",
                             [trade_log |-> trade_log, event_type |-> ty],
                             r.raised, NoResult)
    /\ UNCHANGED <<env, broker>>

NextAlgo ==
    \/ AlgoNewTWAP
    \/ AlgoNewRL
    \/ AlgoReset
    \/ AlgoGetNextEvent
    \/ AlgoGetOrderAtEvent
    \/ AlgoUpdateRemainingVolume

SpecAlgo == InitAlgo /\ [][NextAlgo]_vars

Driven == Callable /\ HasCursors(Target)

DecisionTimes(algo) ==
    UNION {Range(algo.execution_times[i]) : i \in DOMAIN algo.execution_times}

\* C11: a get_next_event call returns the timeline event at the event cursor,
\* of type bucket_bound exactly when its time is not a sampled decision time
\* and order_placement otherwise; done is TRUE exactly when that event is the
\* last of the timeline, and then the cursor wraps to 0; otherwise done is
\* FALSE and the cursor advances by one.
C11_NextEventAtCursor ==
    [][(Driven /\ call'.fn = "get_next_event") =>
         LET at == Target.event_idx
             last == at = Len(Target.algo_events) - 1
             event == call'.result.event
         IN /\ call'.raised = "no"
            /\ event.time = Target.algo_events[at + 1]
            /\ event.type \in {"bucket_bound", "order_placement"}
            /\ event.type = "bucket_bound" <=> event.time \notin DecisionTimes(Target)
            /\ call'.result.done = last
            /\ Target'.event_idx = IF last THEN 0 ELSE at + 1
            /\ Target' = [Target EXCEPT !.event_idx = Target'.event_idx]]_vars

\* get_next_event returned the last event of the timeline, a bucket bound,
\* and the cursor is back at 0
C11_Witness ==
    /\ call.fn = "get_next_event" /\ call.raised = "no"
    /\ call.result.done
    /\ call.result.event.type = "bucket_bound"
    /\ call.result.event.time = Last(Target.algo_events)
    /\ Target.event_idx = 0

(* the bucket cursor points at a bucket of the schedule *)
InBucket(algo) == algo.bucket_idx < Len(algo.bucket_volumes)

\* C12: a get_order_at_event call made with the bucket cursor on a bucket
\* sizes the order by event kind: for order_placement a limit order whose
\* quantity is the allocation-table cell at the (bucket, slice) cursor, and
\* the slice cursor advances by one, back to 0 after the bucket's last
\* slice; for bucket_bound a market order whose quantity is the current
\* bucket's remaining volume, and the slice cursor stays; any other event
\* kind fails.  Nothing else of the schedule changes.
C12_OrderSizedByEventKind ==
    [][(Driven /\ call'.fn = "get_order_at_event") =>
         LET kind == call'.args.event.type
             b == Target.bucket_idx
             o == Target.order_idx
         IN /\ (kind = "order_placement" /\ InBucket(Target)) =>
                  /\ call'.raised = "no"
                  /\ call'.result.order.type = "limit"
                  /\ call'.result.order.quantity = Target.volumes_per_trade[b + 1][o + 1]
                  /\ Target'.order_idx = IF o = Target.no_of_slices - 1 THEN 0 ELSE o + 1
            /\ (kind = "bucket_bound" /\ InBucket(Target)) =>
                  /\ call'.raised = "no"
                  /\ call'.result.order.type = "market"
                  /\ call'.result.order.quantity = Target.bucket_vol_remaining[b + 1]
                  /\ Target'.order_idx = o
            /\ kind \notin {"order_placement", "bucket_bound"} =>
                  /\ call'.raised # "no"
                  /\ Target' = Target
            /\ Target' = [Target EXCEPT !.order_idx = Target'.order_idx]]_vars

\* a limit order was emitted for the last slice of a bucket of two slices
\* and the slice cursor is back at 0
C12_Witness ==
    /\ call.fn = "get_order_at_event" /\ call.raised = "no"
    /\ call.args.event.type = "order_placement"
    /\ call.result.order.type = "limit"
    /\ call.result.order.quantity > 0
    /\ Target.no_of_slices = 2
    /\ Target.order_idx = 0

\* C13: an update_remaining_volume call that returns takes a fill of
\* positive quantity q off the global remaining volume and off the current
\* bucket's remaining volume, by exactly q, and changes no other bucket;
\* with no fill or a fill of quantity <= 0 all remaining volumes stay; the
\* bucket cursor advances by one exactly when the event kind passed is
\* bucket_bound and otherwise stays.  Nothing else of the schedule changes.
C13_FillTakenOffCurrentBucket ==
    [][(Driven /\ call'.fn = "update_remaining_volume" /\ call'.raised = "no") =>
         LET trade_log == call'.args.trade_log
             q == IF trade_log # NoLog /\ trade_log.quantity > 0
                  THEN trade_log.quantity ELSE 0
             b == Target.bucket_idx
         IN /\ Target'.vol_remaining = Target.vol_remaining - q
            /\ \A i \in DOMAIN Target.bucket_vol_remaining :
                   Target'.bucket_vol_remaining[i] =
                       Target.bucket_vol_remaining[i] - (IF i = b + 1 THEN q ELSE 0)
            /\ Target'.bucket_idx =
                   IF call'.args.event_type = "bucket_bound" THEN b + 1 ELSE b
            /\ Target' = [Target EXCEPT !.vol_remaining = Target'.vol_remaining,
                                        !.bucket_vol_remaining = Target'.bucket_vol_remaining,
                                        !.bucket_idx = Target'.bucket_idx]]_vars

\* a fill of 2 at a bucket bound was taken off the first of several buckets
\* and the bucket cursor moved on
C13_Witness ==
    /\ call.fn = "update_remaining_volume" /\ call.raised = "no"
    /\ call.args.trade_log # NoLog /\ call.args.trade_log.quantity = 2
    /\ call.args.event_type = "bucket_bound"
    /\ Target.bucket_idx = 1
    /\ Target.bucket_vol_remaining[1] = Target.bucket_volumes[1] - 2
    /\ Target.bucket_vol_remaining[2] = Target.bucket_volumes[2]
    /\ Target.vol_remaining = Target.volume - 2

\* C14: an adaptive schedule just constructed from a benchmark schedule has
\* the benchmark's timeline, decision times, bucket bounds and bucket
\* volumes, an allocation table of the benchmark table's shape holding only
\* zeros, all three cursors at 0, a global remaining volume equal to the
\* total volume and per-bucket remaining volumes equal to the benchmark's
\* bucket volumes.
C14_AdaptiveMirrorsBenchmark ==
    call.fn = "RLAlgo" =>
        /\ rl.algo_events = bmk.algo_events
        /\ rl.execution_times = bmk.execution_times
        /\ rl.buckets.bucket_bounds = bmk.buckets.bucket_bounds
        /\ rl.bucket_volumes = bmk.bucket_volumes
        /\ DOMAIN rl.volumes_per_trade = DOMAIN bmk.volumes_per_trade
        /\ \A i \in DOMAIN rl.volumes_per_trade :
               /\ DOMAIN rl.volumes_per_trade[i] = DOMAIN bmk.volumes_per_trade[i]
               /\ \A j \in DOMAIN rl.volumes_per_trade[i] : rl.volumes_per_trade[i][j] = 0
        /\ rl.event_idx = 0 /\ rl.order_idx = 0 /\ rl.bucket_idx = 0
        /\ rl.vol_remaining = rl.volume
        /\ rl.volume = bmk.volume
        /\ rl.bucket_vol_remaining = bmk.bucket_volumes

\* an adaptive schedule was constructed from a benchmark of three buckets of
\* two slices whose allocation table has a positive cell
C14_Witness ==
    /\ call.fn = "RLAlgo"
    /\ Len(bmk.bucket_volumes) = 3
    /\ bmk.no_of_slices = 2
    /\ bmk.volumes_per_trade[1][1] > 0
    /\ rl.volumes_per_trade[1][1] = 0
    /\ Len(rl.algo_events) = Len(bmk.algo_events)

----------------------------------------------------------------------------
(* The broker.  Its code is not part of the sources; it is modelled from   *)
(* the specification (sections 4.3, 4.4 and 6): it resets a schedule,      *)
(* turns the schedule's order at an event into a submitted order, reports  *)
(* fills to update_remaining_volume, and keeps one trade log per track.    *)
(* Here a track holds at most one resting limit order (a new order takes   *)
(* the place of what is left of the previous one), a limit order fills for *)
(* at most its quantity while the feed runs to the next event, a market    *)
(* order fills at once and in full, and every order leaves a log entry     *)
(* stamped with the time of the event it was placed at.  The broker reads  *)
(* the shared data feed forward from where its cursor stands.              *)
(* A track record carries one schedule through the broker's calls.         *)

NoEvent == [type |-> "none", time |-> -1]
NoTime == NoEvent.time   \* a timestamp attribute that holds None

(* last_ts is the timestamp of the last entry the track's orders left in   *)
(* its trade log, bucket_time the timestamp _step_algo read from the log   *)
(* when the track crossed a bucket bound, feed the operations the broker   *)
(* made on the data feed for the track, in order.                          *)
Track(algo, event, done, live, n_trades) ==
    [algo |-> algo, event |-> event, done |-> done, live |-> live,
     n_trades |-> n_trades, raised |-> "no", crossed |-> FALSE,
     last_ts |-> NoTime, bucket_time |-> NoTime, feed |-> <<>>]
FillFractions == {0, 1, 2}  \* halves of the resting quantity: none, half, all
TradeLog(quantity) == [message |-> "trade", quantity |-> quantity]

(* Broker.reset(schedule) *)
broker_reset(algo) == Track(reset(algo), NoEvent, FALSE, 0, 0)

(* Broker.place_next_order(schedule, event, done, snapshot, volume):       *)
(* volume is <<>> for None, <<v>> for an explicit volume                   *)
place_next_order(track, volume) ==
    IF track.raised # "no" THEN track
    ELSE LET r == get_order_at_event(track.algo, track.event)
         IN IF r.raised # "no" THEN [track EXCEPT !.raised = r.raised]
            ELSE LET quantity == IF volume = <<>> THEN r.order.quantity
                                 ELSE volume[1]
                 IN IF r.order.type = "limit"
                    THEN [track EXCEPT !.algo = r.algo, !.live = quantity,
                                       !.n_trades = @ + 1,
                                       !.last_ts = track.event.time]
                    ELSE LET u == update_remaining_volume(
                                      r.algo, TradeLog(quantity), "bucket_bound")
                         IN [track EXCEPT !.algo = u.algo, !.live = 0,
                                          !.n_trades = @ + 1,
                                          !.last_ts = track.event.time,
                                          !.raised = u.raised]

(* Broker.simulate_to_next_event(schedule): the resting order fills for    *)
(* fill_fraction halves of its quantity while the feed is read forward,    *)
(* then the schedule's next event is fetched                               *)
simulate_to_next_event(track, fill_fraction) ==
    IF track.raised # "no" THEN track
    ELSE LET fill == IF track.live > 0
                     THEN (track.live * fill_fraction) \div 2
                     ELSE 0
             u == IF track.live > 0
                  THEN update_remaining_volume(track.algo, TradeLog(fill), "none")
                  ELSE [raised |-> "no", algo |-> track.algo]
         IN IF u.raised # "no"
            THEN [track EXCEPT !.algo = u.algo, !.raised = u.raised]
            ELSE LET n == get_next_event(u.algo)
                 IN [track EXCEPT !.algo = n.algo, !.event = n.event,
                                  !.done = n.done, !.live = @ - fill,
                                  !.feed = Append(@, "next_lob_snapshot")]

----------------------------------------------------------------------------
(* BaseEnv (base_env.py) *)

(* _validate_config (base_env.py 427-437): the trade_config checks *)
_validate_config(config) ==
    /\ ~(config.vol_low > config.vol_high)
    /\ ~(config.no_slices_low > config.no_slices_high)
    /\ rand_bucket_config_ok(config.rand_bucket_low, config.rand_bucket_high)

(* Python's round() of num / den, den > 0: halves go to the even integer *)
round(num, den) ==
    LET q == num \div den
        r == num % den
    IN IF 2 * r < den THEN q
       ELSE IF 2 * r > den THEN q + 1
       ELSE IF q % 2 = 0 THEN q ELSE q + 1

SeqMin(s) == CHOOSE x \in Range(s) : \A y \in Range(s) : x <= y
SeqMax(s) == CHOOSE x \in Range(s) : \A y \in Range(s) : x >= y

(* _reset_volume_and_slices (base_env.py 186-197) for a chosen exec_time *)
_reset_volume_and_slices(config, exec_time) ==
    LET lo == SeqMin(config.exec_times)
        hi == SeqMax(config.exec_times)
    IN [exec_time |-> exec_time,
        volume |-> round(config.vol_low * (hi - lo)
                           + (exec_time - lo) * (config.vol_high - config.vol_low),
                         hi - lo),
        no_of_slices |-> round(config.no_slices_low * (hi - lo)
                                 + (exec_time - lo)
                                     * (config.no_slices_high - config.no_slices_low),
                               hi - lo)]

(* _reset_exec_params (base_env.py 150-184): the parameter draws a reset   *)
(* can make.  The start time is the origin of the time axis.               *)
_reset_exec_params(config) ==
    LET drawn == IF Len(config.exec_times) > 1
                 THEN {_reset_volume_and_slices(config, config.exec_times[i]) :
                           i \in DOMAIN config.exec_times}
                 ELSE {[exec_time |-> config.exec_times[1], volume |-> v,
                        no_of_slices |-> ns] :
                           v \in config.vol_low..config.vol_high,
                           ns \in config.no_slices_low..config.no_slices_high}
    IN {[start_time |-> 0, exec_time |-> d.exec_time, volume |-> d.volume,
         no_of_slices |-> d.no_of_slices, trade_dir |-> config.trade_direction,
         rand_bucket_bounds_width |-> w] :
            d \in drawn,
            w \in (config.rand_bucket_low..config.rand_bucket_high)
                      \cap CandidateWidths}

(* BaseEnv.__init__ (base_env.py 76-92) *)
BaseEnv(config) == [state |-> "BaseEnv", config |-> config, reset_counter |-> 0]

(* BaseEnv.infer_volume_from_action (base_env.py 284-294).  action is in  *)
(* tenths.  The floor is to 10 ** exponent of the tick size, which is one  *)
(* unit for every tick size of the model.                                  *)
infer_volume_unclipped(benchmark_algo, rl_algo, action) ==
    LET b == rl_algo.bucket_idx + 1
        o == rl_algo.order_idx + 1
        current_executing_volume == rl_algo.volumes_per_trade[b][o]
        vol_to_add == action * benchmark_algo.volumes_per_trade_default[b][o]
    IN (current_executing_volume * 10 + vol_to_add) \div 10

infer_volume_clipped_to_bucket_volume(benchmark_algo, rl_algo, action) ==
    LET b == rl_algo.bucket_idx + 1
        o == rl_algo.order_idx + 1
        current_executing_volume == rl_algo.volumes_per_trade[b][o]
        vol_to_add == action * benchmark_algo.volumes_per_trade_default[b][o]
        vol_to_trade == (current_executing_volume * 10 + vol_to_add) \div 10
    IN IF vol_to_trade > rl_algo.bucket_volumes[b]
       THEN rl_algo.bucket_volumes[b]
       ELSE vol_to_trade

infer_volume_from_action(benchmark_algo, rl_algo, action) ==
    LET b == rl_algo.bucket_idx + 1
        o == rl_algo.order_idx + 1
        current_executing_volume == rl_algo.volumes_per_trade[b][o]
        vol_to_add == action * benchmark_algo.volumes_per_trade_default[b][o]
        vol_to_trade == (current_executing_volume * 10 + vol_to_add) \div 10
    IN IF vol_to_trade > rl_algo.bucket_vol_remaining[b]
       THEN rl_algo.bucket_vol_remaining[b]
       ELSE vol_to_trade

(* the bucket-bound branch without its second simulate_to_next_event *)
cross_bucket_bound_without_advance(at_event) ==
    The({[closed EXCEPT !.crossed = (closed.raised = "no"),
                        !.bucket_time = IF closed.raised = "no" THEN closed.last_ts
                                        ELSE @] :
            closed \in {place_next_order(at_event, <<>>)}})

(* BaseEnv._step_algo (base_env.py 258-282) on one track; crossed tells    *)
(* that the bucket-bound branch (270-280) ran to its end                   *)
cross_bucket_bound(at_event) ==
    The({[next EXCEPT !.crossed = (next.raised = "no"),
                      !.bucket_time = IF next.raised = "no" THEN next.last_ts
                                      ELSE @] :
            next \in {The({IF closed.done THEN closed
                           ELSE simulate_to_next_event(closed, 0) :
                              closed \in {place_next_order(at_event, <<>>)}})}})

(* an advance that leaves the track alone when the volume to place is 0 *)
_step_algo_skipping_empty_order(track, volume, fill_fraction) ==
    IF volume = <<0>> THEN track
    ELSE The({IF at_event.raised = "no" /\ at_event.event.type = "bucket_bound"
              THEN cross_bucket_bound(at_event)
              ELSE at_event :
                 at_event \in {The({simulate_to_next_event(placed, fill_fraction) :
                                       placed \in {place_next_order(track, volume)}})}})

_step_algo(track, volume, fill_fraction) ==
    The({IF at_event.raised = "no" /\ at_event.event.type = "bucket_bound"
         THEN cross_bucket_bound(at_event)
         ELSE at_event :
            at_event \in {The({simulate_to_next_event(placed, fill_fraction) :
                                  placed \in {place_next_order(track, volume)}})}})

BmkTrack(e, b, br) ==
    Track(b, e.event_bmk, e.done_bmk, br.live.benchmark_algo,
          br.n_trades.benchmark_algo)

RlTrack(e, r, br) ==
    Track(r, e.event_rl, e.done_rl, br.live.rl_algo, br.n_trades.rl_algo)

(* BaseEnv.step, lines 219-225: both tracks advance, then the two checks.  *)
(* assigned counts the tracks whose result was stored before a raise.      *)
step_algos_unchecked(e, b, r, br, vol_to_trade, fill_bmk, fill_rl) ==
    [raised |-> "no",
     bmk |-> _step_algo(BmkTrack(e, b, br), <<>>, fill_bmk),
     rl |-> RlTrack(e, r, br),
     assigned |-> 2]

step_algos(e, b, r, br, vol_to_trade, fill_bmk, fill_rl) ==
    The({IF tb.raised # "no"
         THEN [raised |-> tb.raised, bmk |-> tb, rl |-> RlTrack(e, r, br),
               assigned |-> 0]
         ELSE The({IF tr.raised # "no"
                   THEN [raised |-> tr.raised, bmk |-> tb, rl |-> tr,
                         assigned |-> 1]
                   ELSE IF tb.done # tr.done \/ tr.event.time # tb.event.time
                   THEN [raised |-> "ValueError", bmk |-> tb, rl |-> tr,
                         assigned |-> 2]
                   ELSE [raised |-> "no", bmk |-> tb, rl |-> tr, assigned |-> 2] :
                      tr \in {_step_algo(RlTrack(e, r, br), <<vol_to_trade>>,
                                         fill_rl)}}) :
            tb \in {_step_algo(BmkTrack(e, b, br), <<>>, fill_bmk)}})

----------------------------------------------------------------------------
(* The reward variants (base_env.py 456-632).  A VWAP and a reward are     *)
(* values of the interpreter: a number, kept as an exact fraction with a   *)
(* positive denominator, the float nan, None, or a raised exception on its *)
(* way to the nearest except clause.                                       *)

Num(n) == [kind |-> "num", num |-> n, den |-> 1]
NaN == [kind |-> "nan"]
None == [kind |-> "None"]
Raised(error) == [kind |-> "raised", error |-> error]

IsNum(x) == x.kind = "num"
IsZero(x) == IsNum(x) /\ x.num = 0
IsPositive(x) == IsNum(x) /\ x.num * x.den > 0

(* a binary arithmetic operation on two values, num its result on numbers *)
arith(a, b, num) ==
    IF a.kind = "raised" THEN a
    ELSE IF b.kind = "raised" THEN b
    ELSE IF "None" \in {a.kind, b.kind} THEN Raised("TypeError")
    ELSE IF "nan" \in {a.kind, b.kind} THEN NaN
    ELSE num

py_sub(a, b) ==
    arith(a, b, IF IsNum(a) /\ IsNum(b)
                THEN [kind |-> "num", num |-> a.num * b.den - b.num * a.den,
                      den |-> a.den * b.den]
                ELSE NaN)

py_mul(a, b) ==
    arith(a, b, IF IsNum(a) /\ IsNum(b)
                THEN [kind |-> "num", num |-> a.num * b.num, den |-> a.den * b.den]
                ELSE NaN)

py_div(a, b) ==
    arith(a, b, IF IsNum(a) /\ IsNum(b)
                THEN IF b.num = 0 THEN Raised("ZeroDivisionError")
                     ELSE [kind |-> "num",
                           num |-> a.num * b.den * (IF b.num < 0 THEN -1 ELSE 1),
                           den |-> a.den * Abs(b.num)]
                ELSE NaN)

(* a > b: a comparison with nan is False, one with None is a TypeError *)
py_gt(a, b) ==
    IF "None" \in {a.kind, b.kind} THEN Raised("TypeError")
    ELSE IF IsNum(a) /\ IsNum(b) /\ a.num * b.den > b.num * a.den
    THEN [kind |-> "bool", value |-> TRUE]
    ELSE [kind |-> "bool", value |-> FALSE]

(* try: reward = value / except: reward = 0 *)
except_zero(value) == IF value.kind = "raised" THEN Num(0) ELSE value

(* what a reward_func call comes to: the reward returned or the exception  *)
(* that leaves it                                                          *)
reward_returned(value) ==
    IF value.kind = "raised"
    THEN [raised |-> value.error, reward |-> None]
    ELSE [raised |-> "no", reward |-> value]

(* Broker.calc_vwap_from_logs: the two VWAPs of the window asked for, as   *)
(* the broker holds them for the call; over a window without trades of a   *)
(* track there is no number for that track                                 *)
calc_vwap_from_logs(br) == br.vwap

NoValue(w) == w.raised # "no" \/ ~IsNum(w.vwap_bmk) \/ ~IsNum(w.vwap_rl)

(* the reward of the three step-wise variants, for the broker's answer w *)
sign_at_step(e, w) ==
    LET better == IF e.trade_dir = 1 THEN py_gt(w.vwap_bmk, w.vwap_rl)
                  ELSE py_gt(w.vwap_rl, w.vwap_bmk)
    IN IF w.raised # "no" THEN Raised(w.raised)
       ELSE IF better.kind = "raised" THEN better
       ELSE IF better.value THEN Num(1) ELSE Num(0)

(* the improvement as a share of the benchmark VWAP in both directions *)
percent_of_benchmark(e, w) ==
    IF w.raised # "no" THEN Raised(w.raised)
    ELSE IF e.trade_dir = 1 THEN py_sub(Num(1), py_div(w.vwap_rl, w.vwap_bmk))
    ELSE py_sub(py_div(w.vwap_rl, w.vwap_bmk), Num(1))

percent_improvement(e, w) ==
    IF w.raised # "no" THEN Raised(w.raised)
    ELSE IF e.trade_dir = 1 THEN py_sub(py_div(w.vwap_bmk, w.vwap_rl), Num(1))
    ELSE py_sub(py_div(w.vwap_rl, w.vwap_bmk), Num(1))

(* the dollar improvement measured against the benchmark whatever the direction *)
dollar_improvement_one_sided(e, w) ==
    IF w.raised # "no" THEN Raised(w.raised)
    ELSE py_sub(w.vwap_bmk, w.vwap_rl)

dollar_improvement(e, w) ==
    IF w.raised # "no" THEN Raised(w.raised)
    ELSE IF e.trade_dir = 1 THEN py_sub(w.vwap_bmk, w.vwap_rl)
    ELSE py_sub(w.vwap_rl, w.vwap_bmk)

(* ExampleEnvRewardAtStep.reward_func (456-469): no try around the call *)
ExampleEnvRewardAtStep(e, br) ==
    reward_returned(sign_at_step(e, calc_vwap_from_logs(br)))

(* RewardAtStepEnv.reward_func (472-485) *)
RewardAtStepEnv(e, br) ==
    reward_returned(except_zero(percent_improvement(e, calc_vwap_from_logs(br))))

(* a per-bucket class that compares the two VWAPs on every step *)
RewardAtBucketEnv_every_step(e, br) ==
    reward_returned(except_zero(percent_improvement(e, calc_vwap_from_logs(br))))

(* RewardAtBucketEnv.reward_func (488-504) *)
RewardAtBucketEnv(e, br) ==
    reward_returned(
        IF e.bucket_time # e.bucket_time_prev
        THEN except_zero(percent_improvement(e, calc_vwap_from_logs(br)))
        ELSE Num(0))

(* RewardAtEpisodeEnv.reward_func (507-522) *)
RewardAtEpisodeEnv(e, br) ==
    reward_returned(
        IF e.done
        THEN except_zero(percent_improvement(e, calc_vwap_from_logs(br)))
        ELSE Num(0))

(* NarrowTradeLimitEnvContinuous.reward_func (540-554) *)
NarrowTradeLimitEnvContinuous(e, br) ==
    reward_returned(
        IF e.bucket_time # e.bucket_time_prev
        THEN except_zero(dollar_improvement(e, calc_vwap_from_logs(br)))
        ELSE Num(0))

(* NarrowTradeLimitEnvDiscrete.reward_func (591-607): vol is the sum of    *)
(* the benchmark's allocation row at the coordinator's bucket_idx          *)
NarrowTradeLimitEnvDiscrete(e, b, br) ==
    LET vol == Num(SumSeq(b.volumes_per_trade[e.bucket_idx + 1]))
    IN reward_returned(
           IF e.bucket_time # e.bucket_time_prev
           THEN except_zero(py_mul(vol, dollar_improvement(e, calc_vwap_from_logs(br))))
           ELSE Num(0))

(* DollarRewardAtStepEnv.reward_func (610-632) *)
DollarRewardAtStepEnv(e, br) ==
    reward_returned(except_zero(dollar_improvement(e, calc_vwap_from_logs(br))))

RewardVariants ==
    {"ExampleEnvRewardAtStep", "RewardAtStepEnv", "RewardAtBucketEnv",
     "RewardAtEpisodeEnv", "NarrowTradeLimitEnvContinuous",
     "NarrowTradeLimitEnvDiscrete", "DollarRewardAtStepEnv"}

(* self.reward_func() of a coordinator of class e.class *)
reward_func(e, b, br) ==
    CASE e.class = "ExampleEnvRewardAtStep" -> ExampleEnvRewardAtStep(e, br)
      [] e.class = "RewardAtStepEnv" -> RewardAtStepEnv(e, br)
      [] e.class = "RewardAtBucketEnv" -> RewardAtBucketEnv(e, br)
      [] e.class = "RewardAtEpisodeEnv" -> RewardAtEpisodeEnv(e, br)
      [] e.class = "NarrowTradeLimitEnvContinuous" -> NarrowTradeLimitEnvContinuous(e, br)
      [] e.class = "NarrowTradeLimitEnvDiscrete" -> NarrowTradeLimitEnvDiscrete(e, b, br)
      [] e.class = "DollarRewardAtStepEnv" -> DollarRewardAtStepEnv(e, br)

----------------------------------------------------------------------------
(* BaseEnv.step and BaseEnv.reset *)

NoDecision == [bucket_idx |-> -1]

(* the operations ops made on the data feed by, or on behalf of, by *)
FeedOps(ops, by) == [i \in DOMAIN ops |-> [op |-> ops[i], by |-> by]]

(* build_observation (base_env.py 339-343): the feed is reset to the       *)
(* event's time, then the past snapshots are read                          *)
build_observation == FeedOps(<<"reset", "past_lob_snapshots">>, "build_observation")

(* the broker after the call: feed holds the feed operations of the call,  *)
(* first those of the benchmark track, then those of the adaptive track    *)
BrokerOf(tb, tr) ==
    [state |-> "Broker",
     live |-> [benchmark_algo |-> tb.live, rl_algo |-> tr.live],
     n_trades |-> [benchmark_algo |-> tb.n_trades, rl_algo |-> tr.n_trades],
     feed |-> FeedOps(tb.feed, "benchmark_algo") \o FeedOps(tr.feed, "rl_algo")]

(* a discrete variant that takes an unknown action code for code 1 *)
_convert_action_defaulting(e, action) ==
    IF action = 0 THEN [raised |-> "no", action |-> 10 - 2]
    ELSE IF action = 2 THEN [raised |-> "no", action |-> 10 + 2]
    ELSE [raised |-> "no", action |-> 10]

(* BaseEnv._convert_action (199-202) and its overrides in                  *)
(* NarrowTradeLimitEnvContinuous (530-537, for an action space from -1 to  *)
(* 1), NarrowTradeLimitEnvDiscrete (562-573) and DollarRewardAtStepEnv     *)
(* (612-618).  The result is in tenths; the argument is the action code    *)
(* for the discrete variant and action[0] in tenths for the others.        *)
_convert_action(e, action) ==
    CASE e.class = "NarrowTradeLimitEnvDiscrete" ->
           IF action = 0 THEN [raised |-> "no", action |-> 10 - 2]
           ELSE IF action = 1 THEN [raised |-> "no", action |-> 10]
           ELSE IF action = 2 THEN [raised |-> "no", action |-> 10 + 2]
           ELSE [raised |-> "ValueError", action |-> action]
      [] e.class = "NarrowTradeLimitEnvContinuous" ->
           [raised |-> "no", action |-> 8 + ((action + 10) * (12 - 8)) \div (10 + 10)]
      [] OTHER -> [raised |-> "no", action |-> action]

(* what step reads before it decides: the cursor, the cell, the default    *)
(* slice volume and the bucket's remaining volume (base_env.py 286-292)    *)
decision_inputs(b, r) ==
    [bucket_idx |-> r.bucket_idx, order_idx |-> r.order_idx,
     current_executing_volume |->
         r.volumes_per_trade[r.bucket_idx + 1][r.order_idx + 1],
     default |-> b.volumes_per_trade_default[r.bucket_idx + 1][r.order_idx + 1],
     bucket_vol_remaining |-> r.bucket_vol_remaining[r.bucket_idx + 1]]

(* the outcome of a step that is done when the adaptive track crosses a bucket bound *)
step_outcome_done_at_bound(e, action, decision, s, vwap) ==
    LET e0 == [event_time_prev |-> e.event_bmk.time,
               bucket_time_prev |-> e.bucket_time] @@ e
        e1 == IF s.assigned >= 1
              THEN [e0 EXCEPT !.event_bmk = s.bmk.event, !.done_bmk = s.bmk.done,
                              !.state_idx = IF s.bmk.crossed THEN @ + 1 ELSE @,
                              !.bucket_time_bmk = IF s.bmk.crossed
                                                  THEN s.bmk.bucket_time ELSE @]
              ELSE e0
        e2 == IF s.assigned >= 2
              THEN [e1 EXCEPT !.event_rl = s.rl.event, !.done_rl = s.rl.done,
                              !.bucket_time_rl = IF s.rl.crossed
                                                 THEN s.rl.bucket_time ELSE @]
              ELSE e1
        e3 == [e2 EXCEPT !.bucket_time =
                             IF e2.bucket_time_bmk # NoTime /\ e2.bucket_time_rl # NoTime
                             THEN IF e2.bucket_time_bmk > e2.bucket_time_rl
                                  THEN e2.bucket_time_bmk ELSE e2.bucket_time_rl
                             ELSE @,
                         !.done = s.rl.crossed]
        rw == reward_func([trade_dir |-> e.params.trade_dir] @@ e3, s.bmk.algo,
                          [vwap |-> vwap])
        e4 == [e3 EXCEPT !.reward = rw.reward, !.state_idx = @ + 1]
        e5 == IF s.rl.done THEN e4
              ELSE [e4 EXCEPT !.bucket_idx = s.rl.algo.bucket_idx]
        t == s.bmk.algo.algo_events[e4.state_idx + 1]
        at_bucket_end ==
            ~s.rl.done /\ t \in Range(s.bmk.algo.buckets.bucket_bounds)
        out(env_after, error, observation) ==
            [env |-> env_after, bmk |-> s.bmk.algo, rl |-> s.rl.algo,
             broker |-> [BrokerOf(s.bmk, s.rl) EXCEPT !.feed = @ \o observation],
             call |-> [fn |-> "step", raised |-> error, action |-> action,
                       decision |-> decision, crossed |-> s.rl.crossed]]
    IN IF s.raised # "no" THEN out(IF s.assigned >= 2 THEN e2 ELSE e1, s.raised, <<>>)
       ELSE IF rw.raised # "no" THEN out(e3, rw.raised, <<>>)
       ELSE IF at_bucket_end THEN out(e5, "ValueError", <<>>)
       ELSE out(e5, "no", build_observation)

(* BaseEnv.step, lines 216-256, for the outcome s of advancing both tracks *)
(* and the broker's answer vwap to the reward's calc_vwap_from_logs        *)
step_outcome(e, action, decision, s, vwap) ==
    LET e0 == [event_time_prev |-> e.event_bmk.time,
               bucket_time_prev |-> e.bucket_time] @@ e
        e1 == IF s.assigned >= 1
              THEN [e0 EXCEPT !.event_bmk = s.bmk.event, !.done_bmk = s.bmk.done,
                              !.state_idx = IF s.bmk.crossed THEN @ + 1 ELSE @,
                              !.bucket_time_bmk = IF s.bmk.crossed
                                                  THEN s.bmk.bucket_time ELSE @]
              ELSE e0
        e2 == IF s.assigned >= 2
              THEN [e1 EXCEPT !.event_rl = s.rl.event, !.done_rl = s.rl.done,
                              !.bucket_time_rl = IF s.rl.crossed
                                                 THEN s.rl.bucket_time ELSE @]
              ELSE e1
        e3 == [e2 EXCEPT !.bucket_time =
                             IF e2.bucket_time_bmk # NoTime /\ e2.bucket_time_rl # NoTime
                             THEN IF e2.bucket_time_bmk > e2.bucket_time_rl
                                  THEN e2.bucket_time_bmk ELSE e2.bucket_time_rl
                             ELSE @,
                         !.done = s.rl.done]
        rw == reward_func([trade_dir |-> e.params.trade_dir] @@ e3, s.bmk.algo,
                          [vwap |-> vwap])
        e4 == [e3 EXCEPT !.reward = rw.reward, !.state_idx = @ + 1]
        e5 == IF s.rl.done THEN e4
              ELSE [e4 EXCEPT !.bucket_idx = s.rl.algo.bucket_idx]
        t == s.bmk.algo.algo_events[e4.state_idx + 1]
        at_bucket_end ==
            ~s.rl.done /\ t \in Range(s.bmk.algo.buckets.bucket_bounds)
        out(env_after, error, observation) ==
            [env |-> env_after, bmk |-> s.bmk.algo, rl |-> s.rl.algo,
             broker |-> [BrokerOf(s.bmk, s.rl) EXCEPT !.feed = @ \o observation],
             call |-> [fn |-> "step", raised |-> error, action |-> action,
                       decision |-> decision, crossed |-> s.rl.crossed]]
    IN IF s.raised # "no" THEN out(IF s.assigned >= 2 THEN e2 ELSE e1, s.raised, <<>>)
       ELSE IF rw.raised # "no" THEN out(e3, rw.raised, <<>>)
       ELSE IF at_bucket_end THEN out(e5, "ValueError", <<>>)
       ELSE out(e5, "no", build_observation)

(* BaseEnv.step (base_env.py 204-256): the coordinator, both schedules,    *)
(* the broker and the outcome of the call after step(action), for each     *)
(* answer of the broker in vwaps                                           *)
(* a step that infers the volume and places the order but leaves the cell *)
(* of the adaptive table as it was                                         *)
step_converted_without_write(e, b, r, br, action, fill_bmk, fill_rl, vwaps) ==
    The({
      The({{step_outcome(e, action, decision_inputs(b, r), s, vwap) :
               vwap \in vwaps} :
             s \in {step_algos(e, b, r, br, vol_to_trade, fill_bmk, fill_rl)}}) :
      vol_to_trade \in {infer_volume_from_action(b, r, action)}})

(* lines 211-256 for the converted action: one outcome for each answer    *)
(* in vwaps that the broker may give to the reward's calc_vwap_from_logs   *)
step_converted(e, b, r, br, action, fill_bmk, fill_rl, vwaps) ==
    The({
      The({{step_outcome(e, action, decision_inputs(b, r), s, vwap) :
               vwap \in vwaps} :
             s \in {step_algos(
                        e, b,
                        [r EXCEPT !.volumes_per_trade[r.bucket_idx + 1]
                                                     [r.order_idx + 1] =
                                      vol_to_trade],
                        br, vol_to_trade, fill_bmk, fill_rl)}}) :
      vol_to_trade \in {infer_volume_from_action(b, r, action)}})

step(e, b, r, br, action, fill_bmk, fill_rl, vwaps) ==
    LET failed(error) ==
            [env |-> e, bmk |-> b, rl |-> r, broker |-> br,
             call |-> [fn |-> "step", raised |-> error, action |-> action,
                       decision |-> NoDecision, crossed |-> FALSE,
                       raw_action |-> action]]
        converted == _convert_action(e, action)
    IN IF "done" \notin DOMAIN e THEN {failed("AttributeError")}
       ELSE IF e.done # FALSE THEN {failed("AssertionError")}
       ELSE IF converted.raised # "no" THEN {failed(converted.raised)}
       ELSE {[after EXCEPT !.call = [raw_action |-> action] @@ @] :
                after \in step_converted(e, b, r, br, converted.action,
                                         fill_bmk, fill_rl, vwaps)}

(* TWAPAlgo.__init__ (execution_algo.py 307-308): the feed is reset to the *)
(* start time and one snapshot is read for the tick size                   *)
TWAPAlgo_feed == <<"reset", "next_lob_snapshot">>

(* a redraw on the first reset() only *)
redraw_first_only(e) == e.reset_counter = 0

(* BaseEnv.reset (base_env.py 94-148) for the drawn parameters and the     *)
(* benchmark schedule TWAPAlgo built from them                             *)
redraw(e) ==
    e.reset_counter >= e.config.reset_num_episodes \/ e.reset_counter = 0

(* lines 117-148 without line 144: done keeps its value *)
reset_outcome_keeping_done(e1, tb, tr) ==
    LET e2 == [event_bmk |-> tb.event, done_bmk |-> tb.done,
               event_rl |-> tr.event, done_rl |-> tr.done] @@ e1
        e3 == [bucket_time |-> tr.event.time, bucket_time_bmk |-> NoTime,
               bucket_time_rl |-> NoTime, state_idx |-> 0, bucket_idx |-> 0,
               reward |-> Num(0)] @@ e2
        returned(error) == [fn |-> "reset", raised |-> error, action |-> 0,
                            decision |-> NoDecision]
        feed(observation) ==
            FeedOps(TWAPAlgo_feed, "TWAPAlgo")
                \o BrokerOf(tb, tr).feed \o observation
    IN IF tr.event.time # tb.event.time
       THEN [env |-> e2, bmk |-> tb.algo, rl |-> tr.algo,
             broker |-> [BrokerOf(tb, tr) EXCEPT !.feed = feed(<<>>)],
             call |-> returned("ValueError")]
       ELSE [env |-> e3, bmk |-> tb.algo, rl |-> tr.algo,
             broker |-> [BrokerOf(tb, tr) EXCEPT !.feed = feed(build_observation)],
             call |-> returned("no")]

(* lines 117-148, tb and tr the tracks at their first event *)
reset_outcome(e1, tb, tr) ==
    LET e2 == [event_bmk |-> tb.event, done_bmk |-> tb.done,
               event_rl |-> tr.event, done_rl |-> tr.done] @@ e1
        e3 == [bucket_time |-> tr.event.time, bucket_time_bmk |-> NoTime,
               bucket_time_rl |-> NoTime, state_idx |-> 0, bucket_idx |-> 0,
               reward |-> Num(0), done |-> FALSE] @@ e2
        returned(error) == [fn |-> "reset", raised |-> error, action |-> 0,
                            decision |-> NoDecision]
        feed(observation) ==
            FeedOps(TWAPAlgo_feed, "TWAPAlgo")
                \o BrokerOf(tb, tr).feed \o observation
    IN IF tr.event.time # tb.event.time
       THEN [env |-> e2, bmk |-> tb.algo, rl |-> tr.algo,
             broker |-> [BrokerOf(tb, tr) EXCEPT !.feed = feed(<<>>)],
             call |-> returned("ValueError")]
       ELSE [env |-> e3, bmk |-> tb.algo, rl |-> tr.algo,
             broker |-> [BrokerOf(tb, tr) EXCEPT !.feed = feed(build_observation)],
             call |-> returned("no")]

BaseEnv_reset(e, b, r, br, params, twap) ==
    LET e1 == [params |-> params,
               reset_counter |-> (IF redraw(e) THEN 0 ELSE e.reset_counter) + 1] @@ e
    IN IF twap.raised # "no"
       THEN [env |-> e1, bmk |-> b, rl |-> r, broker |-> br,
             call |-> [fn |-> "reset", raised |-> twap.raised, action |-> 0,
                       decision |-> NoDecision]]
       ELSE The({
              The({reset_outcome(e1, tb, tr) :
                     tr \in {simulate_to_next_event(
                                 broker_reset(RLAlgo(tb.algo)), 0)}}) :
              tb \in {simulate_to_next_event(broker_reset(twap), 0)}})

----------------------------------------------------------------------------
(* Spec: a coordinator, from its construction on, under any sequence of    *)
(* reset() and step(action) calls, any draws and any fills                 *)

Actions == {8, 10, 12}           \* tenths: 0.8, 1.0, 1.2
ActionCodes == {0, 1, 2, 3}      \* what a discrete policy may hand to step

(* the actions the policy of a coordinator hands to step *)
ActionsOf(e) ==
    IF e.class = "NarrowTradeLimitEnvDiscrete" THEN ActionCodes ELSE Actions

(* what the broker may answer to the reward's calc_vwap_from_logs *)
StepVwaps ==
    {[raised |-> "no", vwap_bmk |-> Num(100), vwap_rl |-> Num(rl_price)] :
        rl_price \in {99, 101}}

(* an instance of a subclass of BaseEnv *)
Subclass(class, e) == [class |-> class] @@ e

(* Broker(): nothing rests, the logs are empty, the feed is untouched *)
Broker ==
    [state |-> "Broker",
     live |-> [benchmark_algo |-> 0, rl_algo |-> 0],
     n_trades |-> [benchmark_algo |-> 0, rl_algo |-> 0],
     feed |-> <<>>]
EnvPlacementFracs == {0, 25, 50}   \* what bucket_func returns, in hundredths

EnvConfigs ==
    {[exec_times |-> <<8 * SEC>>, vol_low |-> 25, vol_high |-> 25,
      no_slices_low |-> 1, no_slices_high |-> 2, trade_direction |-> 1,
      rand_bucket_low |-> 0, rand_bucket_high |-> 0, reset_num_episodes |-> 1],
     [exec_times |-> <<8 * SEC, 15 * SEC>>, vol_low |-> 7, vol_high |-> 30,
      no_slices_low |-> 1, no_slices_high |-> 1, trade_direction |-> -1,
      rand_bucket_low |-> 0, rand_bucket_high |-> 0, reset_num_episodes |-> 2]}

(* the coordinators constructed: one of the per-bucket class under the    *)
(* buying configuration, one of the per-episode class under the selling    *)
(* one                                                                     *)
EnvKinds ==
    {[class |-> IF config.trade_direction = 1 THEN "RewardAtBucketEnv"
                ELSE "RewardAtEpisodeEnv",
      config |-> config] : config \in EnvConfigs}

Init ==
    /\ call = NoCall
    /\ bmk = NoAlgo
    /\ rl = NoAlgo
    /\ env \in {Subclass(k.class, BaseEnv(k.config)) :
                    k \in {kind \in EnvKinds : _validate_config(kind.config)}}
    /\ broker = Broker

(* The history of calls, kept with the last call: how many reset() calls   *)
(* were made, whether the last reset took the redraw branch (line 98), and *)
(* how many step() calls returned since the schedules were last replaced.  *)
Resets == IF "resets" \in DOMAIN call THEN call.resets ELSE 0
Steps == IF "steps" \in DOMAIN call THEN call.steps ELSE 0
Redrawn == IF "redrawn" \in DOMAIN call THEN call.redrawn ELSE FALSE

History(returned) ==
    [resets |-> IF returned.fn = "reset" THEN Resets + 1 ELSE Resets,
     redrawn |-> IF returned.fn = "reset" THEN redraw(env) ELSE Redrawn,
     steps |-> IF returned.raised # "no" THEN Steps
               ELSE IF returned.fn = "reset" THEN 0 ELSE Steps + 1]

Becomes(after) ==
    /\ env' = after.env
    /\ bmk' = after.bmk
    /\ rl' = after.rl
    /\ broker' = after.broker
    /\ call' = after.call @@ History(after.call)

EnvReset ==
    /\ Resets < MaxResets
    /\ \E params \in IF redraw(env) THEN _reset_exec_params(env.config)
                     ELSE {env.params} :
         \E twap \in TWAPAlgos({params.trade_dir}, {params.volume},
                               {params.no_of_slices}, {params.start_time},
                               {params.exec_time}, {params.rand_bucket_bounds_width},
                               TickSizes, EnvPlacementFracs) :
           \E after \in {BaseEnv_reset(env, bmk, rl, broker, params, twap)} :
               Becomes(after)

EnvStep ==
    \E action \in ActionsOf(env), fill_bmk \in FillFractions, fill_rl \in FillFractions :
        \E after \in step(env, bmk, rl, broker, action, fill_bmk, fill_rl, StepVwaps) :
            Becomes(after)

Next == EnvReset \/ EnvStep

Spec == Init /\ [][Next]_vars

(* SpecDiscrete: a coordinator of the discrete action variant, under the   *)
(* buying configuration, any sequence of reset() and step(action code)     *)
InitDiscrete ==
    /\ call = NoCall
    /\ bmk = NoAlgo
    /\ rl = NoAlgo
    /\ env \in {Subclass("NarrowTradeLimitEnvDiscrete", BaseEnv(config)) :
                    config \in {c \in EnvConfigs : _validate_config(c)
                                                     /\ c.trade_direction = 1}}
    /\ broker = Broker

SpecDiscrete == InitDiscrete /\ [][Next]_vars

----------------------------------------------------------------------------
(* Claims on Spec *)

ReturnedNormally(fn) == call.fn = fn /\ call.raised = "no"

\* C1: after reset and after every step call that returns normally, both
\* tracks report the same pending event timestamp, and after a step also
\* the same done flag; a call that would leave them different raises.
C1_TracksInStep ==
    /\ (ReturnedNormally("reset") \/ ReturnedNormally("step")) =>
           env.event_bmk.time = env.event_rl.time
    /\ ReturnedNormally("step") => env.done_bmk = env.done_rl

\* a step that crossed a bucket bound returned with the episode going on
C1_Witness ==
    /\ ReturnedNormally("step")
    /\ ~env.done
    /\ env.bucket_idx >= 1
    /\ bmk.event_idx = rl.event_idx
    /\ env.event_bmk.type = "order_placement"

Decided == call.fn = "step" /\ call.decision.bucket_idx >= 0

DecidedCell ==
    rl.volumes_per_trade[call.decision.bucket_idx + 1][call.decision.order_idx + 1]

DecidedFloor ==
    (call.decision.current_executing_volume * 10
        + call.action * call.decision.default) \div 10

\* C8: the volume a step writes into the adaptive schedule's current
\* (bucket, slice) cell is at most the bucket's remaining volume at that
\* moment, and equals it when the floored value of cell + action * default
\* slice volume is larger.
C8_WrittenVolumeClipped ==
    Decided =>
        /\ DecidedCell <= call.decision.bucket_vol_remaining
        /\ DecidedFloor > call.decision.bucket_vol_remaining =>
               DecidedCell = call.decision.bucket_vol_remaining

\* a step after a fill whose floored volume was above what the bucket had left
C8_Witness ==
    /\ Decided
    /\ call.decision.bucket_vol_remaining > 0
    /\ call.decision.bucket_vol_remaining
           < rl.bucket_volumes[call.decision.bucket_idx + 1]
    /\ DecidedFloor > call.decision.bucket_vol_remaining
    /\ DecidedCell = call.decision.bucket_vol_remaining

C15_RedrawEveryNthReset ==
    [][LET N == env.config.reset_num_episodes
       IN /\ call'.fn = "reset" =>
                /\ call'.resets = Resets + 1
                /\ call'.redrawn <=> Resets % N = 0
                /\ call'.redrawn => env'.params \in _reset_exec_params(env.config)
                /\ ~call'.redrawn => env'.params = env.params
                /\ env'.reset_counter = (Resets % N) + 1
                /\ env'.reset_counter \in 1..N
          /\ call'.fn = "step" =>
                /\ env'.reset_counter = env.reset_counter
                /\ "params" \in DOMAIN env => env'.params = env.params]_vars

\* with N = 2 the third reset() redrew the parameters, and drew a longer
\* execution than the default one
C15_Witness ==
    /\ call.fn = "reset" /\ call.raised = "no"
    /\ env.config.reset_num_episodes = 2
    /\ call.resets = 3
    /\ call.redrawn
    /\ env.reset_counter = 1
    /\ env.params.exec_time = 15 * SEC

(* where a track stands after k steps of an episode: k order placements    *)
(* and one bucket bound for every full bucket of slices                    *)
EventsConsumed(algo, k) == k + (k \div algo.no_of_slices)
EpisodeLength(algo) == Len(algo.bucket_volumes) * algo.no_of_slices

\* C16: after the k-th step() of an episode each track has consumed k
\* order_placement events and one bucket_bound event for every bucket whose
\* last slice was among them (the step that places a bucket's last slice
\* consumes the bucket bound too, and places the bucket's residual market
\* order); so step() returns done = TRUE exactly at k = number of buckets
\* times slices per bucket, and on no earlier step.
C16_DoneOnLastSliceOfLastBucket ==
    ReturnedNormally("step") =>
        LET k == call.steps
        IN /\ k \in 1..EpisodeLength(bmk)
           /\ env.done <=> k = EpisodeLength(bmk)
           /\ \A algo \in {bmk, rl} :
                 /\ algo.order_idx = k % algo.no_of_slices
                 /\ algo.bucket_idx = k \div algo.no_of_slices
                 /\ algo.event_idx = IF k = EpisodeLength(algo) THEN 0
                                     ELSE 1 + EventsConsumed(algo, k)
                 /\ Len(algo.algo_events) = EventsConsumed(algo, EpisodeLength(algo))
           /\ broker.n_trades.benchmark_algo = EventsConsumed(bmk, k)
           /\ broker.n_trades.rl_algo = EventsConsumed(rl, k)
           /\ env.state_idx = EventsConsumed(bmk, k)

\* the fourth step of an episode of two buckets of two slices returned done
C16_Witness ==
    /\ ReturnedNormally("step")
    /\ call.steps = 4
    /\ Len(bmk.bucket_volumes) = 2 /\ bmk.no_of_slices = 2
    /\ env.done
    /\ broker.n_trades.rl_algo = 6

(* step() is acceptable: a reset() has returned and no step() since has    *)
(* returned done = TRUE                                                    *)
Acceptable(e) == "done" \in DOMAIN e /\ e.done = FALSE

\* C17: a step() called before any reset(), or after a step() returned
\* done = TRUE with no reset() in between, fails and changes no schedule
\* state, cursor or trade log; a step() called between a reset() and the
\* step() that returns done = TRUE is carried out; and a reset() that
\* returns makes step() acceptable again.
C17_StepOnlyWithinEpisode ==
    [][/\ (call'.fn = "step" /\ ~Acceptable(env)) =>
             /\ call'.raised # "no"
             /\ UNCHANGED <<env, bmk, rl, broker>>
       /\ (call'.fn = "step" /\ Acceptable(env)) =>
             /\ call'.raised = "no"
             /\ call'.steps = Steps + 1
             /\ Acceptable(env') <=> ~env'.done_rl
       /\ (call'.fn = "reset" /\ call'.raised = "no") =>
             /\ Acceptable(env')
             /\ call'.steps = 0]_vars

\* a step() called after the episode's last step failed
C17_Witness ==
    /\ call.fn = "step" /\ call.raised = "AssertionError"
    /\ "done" \in DOMAIN env /\ env.done = TRUE
    /\ call.steps = EpisodeLength(bmk)
    /\ call.resets >= 1

----------------------------------------------------------------------------
(* SpecSeed: two coordinators run independently of each other, each        *)
(* constructed with a configuration and a seed, each making the first      *)
(* reset() of its run.  Every variable holds one value per run.            *)
(*                                                                         *)
(* BaseEnv.__init__ passes the configured seed to seed() (lines 89-92),    *)
(* which keeps a generator made from it in self.np_random (line 408).  The *)
(* draws of _reset_exec_params, of Bucket.bucket_bounds and of bucket_func *)
(* are calls of the random module (base_env.py 27, 153-178;                *)
(* execution_algo.py 90), whose generator nothing in the sources seeds:    *)
(* what they return is not a function of np_random.                        *)

Runs == {1, 2}
Seeds == {0, 1}
SeedTick == The(TickSizes \cap {1})

(* BaseEnv.seed (base_env.py 407-409) *)
seed(e, seed_value) == [np_random |-> [seeded_with |-> seed_value]] @@ e

InitSeed ==
    /\ call = NoCall
    /\ \E config \in {c \in EnvConfigs : _validate_config(c)} :
         env \in [Runs -> {seed(BaseEnv(config), s) : s \in Seeds}]
    /\ bmk = [i \in Runs |-> NoAlgo]
    /\ rl = [i \in Runs |-> NoAlgo]
    /\ broker = [i \in Runs |-> Broker]

(* the first reset() of run i: the draws are those of the random module;   *)
(* both runs replay the same data feed, of tick size SeedTick              *)
ResetRun(i) ==
    /\ env[i].reset_counter = 0
    /\ \E params \in _reset_exec_params(env[i].config) :
         \E twap \in TWAPAlgos({params.trade_dir}, {params.volume},
                               {params.no_of_slices}, {params.start_time},
                               {params.exec_time}, {params.rand_bucket_bounds_width},
                               {SeedTick}, EnvPlacementFracs) :
           \E after \in {BaseEnv_reset(env[i], bmk[i], rl[i], broker[i], params, twap)} :
               /\ env' = [env EXCEPT ![i] = after.env]
               /\ bmk' = [bmk EXCEPT ![i] = after.bmk]
               /\ rl' = [rl EXCEPT ![i] = after.rl]
               /\ broker' = [broker EXCEPT ![i] = after.broker]
               /\ call' = [fn |-> "reset", run |-> i, raised |-> after.call.raised]

NextSeed == \E i \in Runs : ResetRun(i)

SpecSeed == InitSeed /\ [][NextSeed]_vars

(* both runs have begun their first episode *)
BothReset == \A i \in Runs : bmk[i] # NoAlgo /\ bmk[i].raised = "no"

\* C18: two runs with the same seed and the same configuration have, in
\* their first episode, the same timeline, the same bucket bounds and the
\* same benchmark allocation table.
C18_SameSeedSameEpisode ==
    (BothReset /\ env[1].np_random = env[2].np_random /\ env[1].config = env[2].config) =>
        /\ bmk[1].algo_events = bmk[2].algo_events
        /\ bmk[1].buckets.bucket_bounds = bmk[2].buckets.bucket_bounds
        /\ bmk[1].volumes_per_trade_default = bmk[2].volumes_per_trade_default

----------------------------------------------------------------------------
(* SpecReward: one reward_func call of a coordinator of any variant, in    *)
(* any direction, within or at the end of a bucket or an episode, for any  *)
(* answer of the broker's VWAP computation                                 *)

Prices == {99, 100, 101}
VwapValues == {Num(p) : p \in Prices} \cup {NaN, None}
VwapAnswers ==
    {[raised |-> "no", vwap_bmk |-> a, vwap_rl |-> c] : a, c \in VwapValues}
        \cup {[raised |-> "ZeroDivisionError", vwap_bmk |-> None, vwap_rl |-> None]}
AllocationTables == {<<<<3, 2>>, <<0, 0>>>>}

InitReward ==
    /\ call = NoCall
    /\ bmk \in {[kind |-> "TWAPAlgo", volumes_per_trade |-> t] : t \in AllocationTables}
    /\ rl = NoAlgo
    /\ env \in [state : {"BaseEnv"}, class : RewardVariants, trade_dir : {1, -1},
                done : BOOLEAN, bucket_idx : {0, 1},
                bucket_time_prev : {0}, bucket_time : {0, 7 * SEC}]
    /\ broker \in [state : {"Broker"}, vwap : VwapAnswers]

CallRewardFunc ==
    /\ call = NoCall
    /\ \E returned \in {reward_func(env, bmk, broker)} :
           call' = [fn |-> "reward_func", raised |-> returned.raised,
                    reward |-> returned.reward]
    /\ UNCHANGED <<bmk, rl, env, broker>>

NextReward == CallRewardFunc

SpecReward == InitReward /\ [][NextReward]_vars

(* the call read the broker's answer for its window *)
ReadWindow ==
    /\ call.fn = "reward_func"
    /\ env.class \in {"RewardAtBucketEnv", "NarrowTradeLimitEnvContinuous",
                      "NarrowTradeLimitEnvDiscrete"}
           => env.bucket_time # env.bucket_time_prev
    /\ env.class = "RewardAtEpisodeEnv" => env.done

\* C19: a reward_func call of any variant whose window holds no trades of
\* at least one track (the VWAP computation has no number for it) returns,
\* and returns the reward 0.
C19_NoTradesRewardZero ==
    (ReadWindow /\ NoValue(broker.vwap)) =>
        /\ call.raised = "no"
        /\ IsZero(call.reward)

\* C20: for every variant and every pair of positive VWAPs the reward is
\* positive only if the adaptive track did better in the trade direction:
\* when buying only if the adaptive VWAP is below the benchmark VWAP, when
\* selling only if it is above; it is never positive when the adaptive
\* VWAP is worse.
C20_PositiveOnlyIfAdaptiveBetter ==
    (call.fn = "reward_func" /\ ~NoValue(broker.vwap)) =>
        /\ call.raised = "no"
        /\ IsNum(call.reward)
        /\ IsPositive(call.reward) =>
              IF env.trade_dir = 1
              THEN broker.vwap.vwap_rl.num < broker.vwap.vwap_bmk.num
              ELSE broker.vwap.vwap_rl.num > broker.vwap.vwap_bmk.num

\* selling at an adaptive VWAP of 101 against a benchmark VWAP of 100, the
\* percentage reward at a step is 1/100
C20_Witness ==
    /\ call.fn = "reward_func" /\ call.raised = "no"
    /\ env.class = "RewardAtStepEnv"
    /\ env.trade_dir = -1
    /\ broker.vwap.raised = "no"
    /\ broker.vwap.vwap_bmk = Num(100) /\ broker.vwap.vwap_rl = Num(101)
    /\ call.reward = [kind |-> "num", num |-> 1, den |-> 100]

(* the call was made with the two VWAPs a and c in direction d *)
Scenario(d, a, c) ==
    /\ call.fn = "reward_func"
    /\ env.trade_dir = d
    /\ broker.vwap.raised = "no"
    /\ broker.vwap.vwap_bmk = Num(a) /\ broker.vwap.vwap_rl = Num(c)

(* the number x is within tol_num / tol_den of num / den *)
Near(x, num, den, tol_num, tol_den) ==
    /\ IsNum(x)
    /\ Abs(x.num * den - num * x.den) * tol_den < tol_num * x.den * den

\* C21: selling with a benchmark VWAP of 100 and an adaptive VWAP of 101,
\* the percentage reward at a step is 1 - 100/101 = 1/101, which is 0.0099
\* to four decimals (within 0.00005).
C21_SellPercentIsOneMinusRatio ==
    (Scenario(-1, 100, 101) /\ env.class = "RewardAtStepEnv") =>
        /\ call.raised = "no"
        /\ Near(call.reward, 1, 101, 5, 100000)

\* C22: buying with a benchmark VWAP of 100 and an adaptive VWAP of 99 over
\* a step window, the percentage reward at a step is 100/99 - 1 = 1/99 and
\* the dollar reward at a step is 1.
C22_BuyPercentAndDollar ==
    /\ (Scenario(1, 100, 99) /\ env.class = "RewardAtStepEnv") =>
           /\ call.raised = "no"
           /\ IsNum(call.reward)
           /\ call.reward.num * 99 = call.reward.den
           /\ Near(call.reward, 101, 10000, 5, 100000)
    /\ (Scenario(1, 100, 99) /\ env.class = "DollarRewardAtStepEnv") =>
           /\ call.raised = "no"
           /\ IsNum(call.reward)
           /\ call.reward.num = call.reward.den

\* the percentage reward at a step was computed for a buy at 99 against 100
C22_Witness ==
    /\ Scenario(1, 100, 99)
    /\ env.class = "RewardAtStepEnv"
    /\ call.raised = "no"
    /\ IsPositive(call.reward)

----------------------------------------------------------------------------
\* C23: a step() of the per-bucket class returns the reward 0 when its
\* advance did not cross a bucket bound and the comparison of the two VWAPs
\* (here never 0: the broker's answers differ) when it did; a step() of the
\* per-episode class returns 0 unless it returns done = TRUE, and the
\* comparison when it does.
C23_RewardOnlyAtBucketOrEpisodeEnd ==
    (call.fn = "step" /\ call.raised = "no") =>
        /\ env.class = "RewardAtBucketEnv" =>
               /\ IsNum(env.reward)
               /\ IsZero(env.reward) = ~call.crossed
               /\ (env.bucket_time # env.bucket_time_prev) = call.crossed
        /\ env.class = "RewardAtEpisodeEnv" =>
               /\ IsNum(env.reward)
               /\ IsZero(env.reward) = ~env.done

\* a step inside a later bucket, after a bound was crossed, returned 0
C23_Witness ==
    /\ call.fn = "step" /\ call.raised = "no"
    /\ env.class = "RewardAtBucketEnv"
    /\ env.bucket_time_bmk # NoTime
    /\ ~call.crossed
    /\ IsZero(env.reward)

----------------------------------------------------------------------------
\* C24: in every reset() and step() each reader of the data feed (the
\* benchmark track's advance, the adaptive track's advance, the observation
\* build) finds the feed reset to a timestamp right before its first read:
\* the adaptive advance never reads on from where the benchmark advance
\* left the cursor.
IsRead(operation) == operation.op \in {"next_lob_snapshot", "past_lob_snapshots"}

FirstReadOf(feed, i) ==
    /\ IsRead(feed[i])
    /\ i = 1 \/ feed[i - 1].by # feed[i].by \/ ~IsRead(feed[i - 1])

C24_FeedRepositionedBeforeEachRead ==
    (call.fn \in {"reset", "step"} /\ call.raised = "no") =>
        \A i \in DOMAIN broker.feed :
            FirstReadOf(broker.feed, i) =>
                i > 1 /\ broker.feed[i - 1].op = "reset"

----------------------------------------------------------------------------
\* C25: a step(code) of the discrete action variant that is called inside an
\* episode decides with the factor 0.8, 1 or 1.2 for the code 0, 1 or 2
\* (the volume written is the floor of cell + factor * default slice
\* volume, or the bucket's remaining volume when that is less), and for any
\* other code it raises ValueError and leaves the coordinator, both
\* schedules and the broker as they were.
DiscreteFactors == <<8, 10, 12>>   \* tenths, for the codes 0, 1, 2

C25_DiscreteActionCodes ==
    [][(call'.fn = "step" /\ Acceptable(env)) =>
          IF call'.raw_action \in {0, 1, 2}
          THEN LET factor == DiscreteFactors[call'.raw_action + 1]
                   cell == rl.volumes_per_trade[rl.bucket_idx + 1][rl.order_idx + 1]
                   default == bmk.volumes_per_trade_default[rl.bucket_idx + 1]
                                                           [rl.order_idx + 1]
                   floored == (cell * 10 + factor * default) \div 10
                   remaining == rl.bucket_vol_remaining[rl.bucket_idx + 1]
               IN /\ call'.raised = "no"
                  /\ call'.action = factor
                  /\ rl'.volumes_per_trade[rl.bucket_idx + 1][rl.order_idx + 1]
                         = IF floored > remaining THEN remaining ELSE floored
          ELSE /\ call'.raised = "ValueError"
               /\ UNCHANGED <<env, bmk, rl, broker>>]_vars

\* inside an episode, after a step, a step(3) was refused
C25_Witness ==
    /\ call.fn = "step" /\ call.raw_action = 3 /\ call.raised = "ValueError"
    /\ Acceptable(env)
    /\ Steps >= 1
    /\ rl.bucket_vol_remaining[rl.bucket_idx + 1] > 0

----------------------------------------------------------------------------
(* what the coordinator observes of a track after the k-th step of an      *)
(* episode on the timeline of algo: the pending event and the done flag    *)
Observed(algo, k) ==
    IF k < EpisodeLength(algo)
    THEN [event |-> [type |-> "order_placement",
                     time |-> algo.algo_events[EventsConsumed(algo, k) + 1]],
          done |-> FALSE]
    ELSE [event |-> [type |-> "bucket_bound",
                     time |-> algo.algo_events[Len(algo.algo_events)]],
          done |-> TRUE]

\* C29: the pending event (timestamp and kind) and the done flag of each
\* track after a reset() and after the k-th step() of an episode are given
\* by the timeline and k alone, whatever the actions and the fills were;
\* both schedules have the same timeline and the same event, bucket and
\* slice cursors, and no step raises the desynchronization error.
C29_EventsIndependentOfActions ==
    /\ call.fn = "step" => call.raised = "no" \/ ~Acceptable(env)
    /\ (ReturnedNormally("reset") \/ ReturnedNormally("step")) =>
          /\ rl.algo_events = bmk.algo_events
          /\ rl.event_idx = bmk.event_idx
          /\ rl.bucket_idx = bmk.bucket_idx
          /\ rl.order_idx = bmk.order_idx
          /\ [event |-> env.event_bmk, done |-> env.done_bmk] = Observed(bmk, call.steps)
          /\ [event |-> env.event_rl, done |-> env.done_rl] = Observed(rl, call.steps)

\* three steps were made, across a bucket bound, and the tracks differ in
\* the volumes ordered, the volumes left and the resting quantities
C29_Witness ==
    /\ ReturnedNormally("step")
    /\ call.steps = 3
    /\ ~env.done
    /\ rl.volumes_per_trade # bmk.volumes_per_trade
    /\ rl.bucket_vol_remaining # bmk.bucket_vol_remaining
    /\ broker.live.rl_algo # broker.live.benchmark_algo

\* C30: when the coordinator awaits an action, after a reset() and after a
\* step() that returned done = FALSE, the pending event of both tracks is
\* an order_placement event at the time algo_events[state_idx], which is
\* not a bucket bound, and the adaptive bucket cursor is below the number of
\* buckets; no step raises the error of an observation at a bucket end.
C30_AwaitsAtOrderPlacement ==
    /\ call.fn = "step" => call.raised # "ValueError"
    /\ ((ReturnedNormally("reset") \/ ReturnedNormally("step")) /\ ~env.done) =>
          /\ env.event_bmk.type = "order_placement"
          /\ env.event_rl.type = "order_placement"
          /\ env.event_bmk.time = bmk.algo_events[env.state_idx + 1]
          /\ env.event_rl.time = bmk.algo_events[env.state_idx + 1]
          /\ bmk.algo_events[env.state_idx + 1]
                 \notin Range(bmk.buckets.bucket_bounds)
          /\ rl.bucket_idx < rl.buckets.n_buckets
          /\ env.bucket_idx = rl.bucket_idx

\* a step crossed the first bucket bound and awaits the next bucket's action
C30_Witness ==
    /\ ReturnedNormally("step")
    /\ ~env.done
    /\ call.crossed
    /\ rl.bucket_idx = 1
    /\ env.state_idx = Len(bmk.execution_times[1]) + 1

----------------------------------------------------------------------------
(* SpecConfig: BaseEnv.__init__ (base_env.py 76-92) on a configuration     *)
(* argument.  A configuration is a function from section names to          *)
(* sections, a section a function from keys to values; a key that is not   *)
(* given is not in the domain.  delete_vol holds the repr of its value.    *)

DEFAULT_ENV_CONFIG ==
    [obs_config |-> [lob_depth |-> 5, nr_of_lobs |-> 5, norm |-> "True"],
     train_config |-> [train |-> "True", symbol |-> "btcusdt",
                       train_data_periods |-> <<2021, 6, 21, 2021, 6, 21>>,
                       eval_data_periods |-> <<2021, 6, 22, 2021, 6, 22>>],
     trade_config |-> [trade_direction |-> 1, vol_low |-> 500, vol_high |-> 1000,
                       no_slices_low |-> 5, no_slices_high |-> 10,
                       bucket_func |-> "lambda",
                       rand_bucket_low |-> 0, rand_bucket_high |-> 0],
     start_config |-> [hour_low |-> 1, hour_high |-> 19,
                       minute_low |-> 0, minute_high |-> 59,
                       second_low |-> 0, second_high |-> 59],
     exec_config |-> [exec_times |-> <<5, 10, 15, 30, 60, 120, 240>>,
                      delete_vol |-> "False"],
     reset_config |-> [reset_num_episodes |-> 1],
     seed_config |-> [seed |-> 0]]

(* add_default_dict (451-453): {**DEFAULT_ENV_CONFIG, **config} *)
add_default_dict(config) == config @@ DEFAULT_ENV_CONFIG

(* config[section][key] > config[section][other], or the KeyError of a key *)
(* that is not there                                                       *)
Exceeds(config, section, key, other) ==
    IF key \notin DOMAIN config[section] \/ other \notin DOMAIN config[section]
    THEN "KeyError"
    ELSE IF config[section][key] > config[section][other] THEN "ValueError"
    ELSE "no"

(* the first check of checks that does not pass *)
FirstFailure(checks) ==
    IF \A i \in DOMAIN checks : checks[i] = "no" THEN "no"
    ELSE checks[CHOOSE i \in DOMAIN checks :
                    checks[i] # "no" /\ \A j \in 1..(i - 1) : checks[j] = "no"]

(* BaseEnv._validate_config (414-449) on self.config *)
validate_config(config) ==
    IF \E k \in DOMAIN config :
           \/ k \notin DOMAIN DEFAULT_ENV_CONFIG
           \/ \E ky \in DOMAIN config[k] : ky \notin DOMAIN DEFAULT_ENV_CONFIG[k]
    THEN "ValueError"
    ELSE FirstFailure(<<
           IF "lob_depth" \notin DOMAIN config.obs_config THEN "KeyError"
           ELSE IF config.obs_config.lob_depth > 20 THEN "ValueError" ELSE "no",
           Exceeds(config, "trade_config", "vol_low", "vol_high"),
           Exceeds(config, "trade_config", "no_slices_low", "no_slices_high"),
           Exceeds(config, "trade_config", "rand_bucket_low", "rand_bucket_high"),
           IF {"rand_bucket_low", "rand_bucket_high"}
                  \subseteq DOMAIN config.trade_config
           THEN IF config.trade_config.rand_bucket_low < 0
                      \/ config.trade_config.rand_bucket_high > 100
                THEN "ValueError" ELSE "no"
           ELSE "KeyError",
           Exceeds(config, "start_config", "hour_low", "hour_high"),
           Exceeds(config, "start_config", "minute_low", "minute_high"),
           Exceeds(config, "start_config", "second_low", "second_high"),
           IF "delete_vol" \notin DOMAIN config.exec_config THEN "KeyError"
           ELSE IF config.exec_config.delete_vol \notin {"True", "False"}
           THEN "ValueError" ELSE "no">>)

(* build_observation_space (307): lob_depth * nr_of_lobs *)
build_observation_space(config) ==
    IF {"lob_depth", "nr_of_lobs"} \subseteq DOMAIN config.obs_config
    THEN "no" ELSE "KeyError"

(* lines 89-92: the seed is read from the argument, first under            *)
(* 'env_config', then under 'seed_config'                                  *)
seed_of_argument(config) ==
    IF "env_config" \in DOMAIN config
          /\ "seed_config" \in DOMAIN config.env_config
          /\ "seed" \in DOMAIN config.env_config.seed_config
    THEN "no"
    ELSE IF "seed_config" \in DOMAIN config /\ "seed" \in DOMAIN config.seed_config
    THEN "no"
    ELSE "KeyError"

(* BaseEnv.__init__ (76-92) *)
BaseEnv_init(config) ==
    LET merged == add_default_dict(config)
        raised == FirstFailure(<<validate_config(merged),
                                 build_observation_space(merged),
                                 seed_of_argument(config)>>)
    IN [raised |-> raised,
        env |-> IF raised = "no"
                THEN [state |-> "BaseEnv", config |-> merged, reset_counter |-> 0]
                ELSE NoEnv]

(* the configurations handed to the constructor: for each section, not     *)
(* given, given in full, or given in part                                  *)
NotGiven == [given |-> FALSE]
NoSection == [k \in {} |-> 0]
Section(name, section) ==
    IF section = NotGiven THEN NoSection ELSE [k \in {name} |-> section]

With(section, changes) == changes @@ section

ObsSections ==
    {NotGiven, DEFAULT_ENV_CONFIG.obs_config,
     With(DEFAULT_ENV_CONFIG.obs_config, [lob_depth |-> 20]),
     With(DEFAULT_ENV_CONFIG.obs_config, [lob_depth |-> 21]),
     [nr_of_lobs |-> 3]}

TradeSections ==
    {NotGiven, DEFAULT_ENV_CONFIG.trade_config,
     With(DEFAULT_ENV_CONFIG.trade_config, [vol_low |-> 1001]),
     With(DEFAULT_ENV_CONFIG.trade_config, [no_slices_low |-> 11]),
     With(DEFAULT_ENV_CONFIG.trade_config, [rand_bucket_low |-> 50, rand_bucket_high |-> 10]),
     With(DEFAULT_ENV_CONFIG.trade_config, [rand_bucket_low |-> 0, rand_bucket_high |-> 101]),
     With(DEFAULT_ENV_CONFIG.trade_config, [rand_bucket_low |-> -1, rand_bucket_high |-> 100]),
     With(DEFAULT_ENV_CONFIG.trade_config, [volume |-> 700]),
     [vol_low |-> 600, vol_high |-> 900]}

StartSections ==
    {NotGiven,
     With(DEFAULT_ENV_CONFIG.start_config, [hour_low |-> 20]),
     With(DEFAULT_ENV_CONFIG.start_config, [minute_low |-> 60]),
     With(DEFAULT_ENV_CONFIG.start_config, [second_low |-> 60])}

ExecSections ==
    {NotGiven,
     With(DEFAULT_ENV_CONFIG.exec_config, [delete_vol |-> "True"]),
     With(DEFAULT_ENV_CONFIG.exec_config, [delete_vol |-> "1"])}

SeedSections == {NotGiven, DEFAULT_ENV_CONFIG.seed_config, [seed |-> 7]}

OtherSections == {NotGiven, [log_level |-> "debug"]}

ConfigArguments ==
    {Section("obs_config", obs) @@ Section("trade_config", trade)
        @@ Section("start_config", start) @@ Section("exec_config", exec)
        @@ Section("seed_config", seed_section) @@ Section("log_config", other) :
        obs \in ObsSections, trade \in TradeSections, start \in StartSections,
        exec \in ExecSections, seed_section \in SeedSections,
        other \in OtherSections}

InitConfig ==
    /\ call \in {[fn |-> "none", config |-> config] : config \in ConfigArguments}
    /\ bmk = NoAlgo
    /\ rl = NoAlgo
    /\ env = NoEnv
    /\ broker = Broker

Construct ==
    /\ call.fn = "none"
    /\ \E made \in {BaseEnv_init(call.config)} :
           /\ env' = made.env
           /\ call' = [fn |-> "__init__", config |-> call.config,
                       raised |-> made.raised]
    /\ UNCHANGED <<bmk, rl, broker>>

NextConfig == Construct

SpecConfig == InitConfig /\ [][NextConfig]_vars

(* the configuration in effect when each key that is not given takes its   *)
(* default                                                                 *)
InEffect(config) ==
    [section \in DOMAIN DEFAULT_ENV_CONFIG |->
        IF section \in DOMAIN config
        THEN [key \in DOMAIN DEFAULT_ENV_CONFIG[section] |->
                 IF key \in DOMAIN config[section] THEN config[section][key]
                 ELSE DEFAULT_ENV_CONFIG[section][key]]
        ELSE DEFAULT_ENV_CONFIG[section]]

(* the defects of a configuration that the constructor is to refuse *)
UnknownKey(config) ==
    \E k \in DOMAIN config :
        \/ k \notin DOMAIN DEFAULT_ENV_CONFIG
        \/ \E ky \in DOMAIN config[k] : ky \notin DOMAIN DEFAULT_ENV_CONFIG[k]

Defective(config) ==
    \/ UnknownKey(config)
    \/ LET c == InEffect(config)
       IN \/ c.trade_config.vol_low > c.trade_config.vol_high
          \/ c.trade_config.no_slices_low > c.trade_config.no_slices_high
          \/ c.trade_config.rand_bucket_low > c.trade_config.rand_bucket_high
          \/ c.start_config.hour_low > c.start_config.hour_high
          \/ c.start_config.minute_low > c.start_config.minute_high
          \/ c.start_config.second_low > c.start_config.second_high
          \/ c.trade_config.rand_bucket_low < 0
          \/ c.trade_config.rand_bucket_high > 100
          \/ c.exec_config.delete_vol \notin {"True", "False"}
          \/ c.obs_config.lob_depth > 20

\* C26: the constructor raises the configuration error (ValueError) for a
\* configuration with an unknown top-level or nested key, a low bound above
\* its high bound (volume, slice count, jitter width, start hour, minute,
\* second), a jitter bound outside 0..100, a delete_vol that is not a
\* Boolean or a lob_depth above 20, and it accepts every configuration with
\* none of these defects.
C26_DefectsRefusedOthersAccepted ==
    call.fn = "__init__" =>
        IF Defective(call.config) THEN call.raised = "ValueError"
        ELSE call.raised = "no" /\ env.state = "BaseEnv"

----------------------------------------------------------------------------
\* C27: in a constructed benchmark schedule the last bucket's volume is the
\* floor, in ticks, of volume * (last bucket's duration / total duration);
\* the other n_buckets - 1 buckets share the rest (exactly, when the rest is
\* a whole number of ticks): they differ from each other by at most one
\* tick, and a bucket is never smaller than a later one.
C27_LastBucketFlooredRestSplit ==
    Constructed(bmk) =>
        LET n == bmk.buckets.n_buckets
            bounds == bmk.buckets.bucket_bounds
            tick == bmk.tick_size
            in_ticks == (bmk.volume * (bounds[n + 1] - bounds[n]))
                            \div (tick * (bounds[n + 1] - bounds[1]))
            rest == bmk.volume - in_ticks * tick
            others == SubSeq(bmk.bucket_volumes, 1, n - 1)
        IN /\ Len(bmk.bucket_volumes) = n
           /\ bmk.bucket_volumes[n] = in_ticks * tick
           /\ rest % tick = 0 => SumSeq(others) = rest
           /\ \A i \in 1..(n - 1) : \A j \in i..(n - 1) :
                  others[i] - others[j] \in {0, tick}

\* three buckets before a shorter last one, the first of them a tick larger
C27_Witness ==
    /\ Constructed(bmk)
    /\ bmk.buckets.n_buckets = 4
    /\ bmk.bucket_volumes[1] = bmk.bucket_volumes[3] + bmk.tick_size
    /\ bmk.bucket_volumes[4] < bmk.bucket_volumes[3]
    /\ bmk.bucket_volumes[4] > 0

----------------------------------------------------------------------------
(* SpecSample: the loops of ExecutionAlgo._sample_execution_times          *)
(* (execution_algo.py 158-170), one call of _get_execution_times at a      *)
(* time.  A placement function is known by the outputs it can return;      *)
(* calls is the parity of the number of calls made of it.                  *)

PlacementFuncs == {"uniform", "middle", "ends", "inside"}

(* bucket_placement_func(no_of_slices), in hundredths: the default draws   *)
(* rounded uniform fractions and sorts them (base_env.py 27-28); the       *)
(* others are user functions that return the same list at every call       *)
Outputs(func, no_of_slices) ==
    CASE func = "uniform" -> Placements(EnvPlacementFracs, no_of_slices)
      [] func = "middle" -> {[k \in 1..no_of_slices |-> 50]}
      [] func = "ends" ->
           {[k \in 1..no_of_slices |->
                IF no_of_slices = 1 THEN 0
                ELSE ((k - 1) * 100) \div (no_of_slices - 1)]}
      [] func = "inside" ->
           {[k \in 1..no_of_slices |-> (k * 100) \div (no_of_slices + 1)]}

(* the bucket bounds Bucket(...) can produce *)
SampleDurations == {8 * SEC, 15 * SEC}

BucketSets ==
    {Bucket(0, d, w, dr).bucket_bounds :
        <<d, w, dr>> \in {x \in UNION {{<<d, w, dr>> : dr \in DrawSeqs(w)} :
                                          d \in SampleDurations, w \in JitterWidths} :
                             DrawsConsumed(0, x[1], x[2], x[3])}}

InitSample ==
    /\ call \in {[fn |-> "_sample_execution_times", bucket_placement_func |-> func,
                  no_of_slices |-> ns, bucket_bounds |-> b_bounds,
                  pc |-> "for", i |-> 1, bucket_trades |-> <<>>,
                  exec_times |-> <<>>, calls |-> 0] :
                    func \in PlacementFuncs, ns \in 1..MaxSlices,
                    b_bounds \in BucketSets}
    /\ bmk = NoAlgo /\ rl = NoAlgo /\ env = NoEnv /\ broker = NoBroker

(* line 162: the first sample for bucket i *)
GetExecutionTimes ==
    /\ call.fn = "_sample_execution_times" /\ call.pc = "for"
    /\ \E p \in Outputs(call.bucket_placement_func, call.no_of_slices) :
           call' = [call EXCEPT
                      !.bucket_trades = _get_execution_times(call.bucket_bounds, call.i, p),
                      !.calls = (@ + 1) % 2,
                      !.pc = "while"]
    /\ UNCHANGED <<bmk, rl, env, broker>>

(* lines 164-166: the sample is refused and replaced by a new one *)
Resample ==
    /\ call.fn = "_sample_execution_times" /\ call.pc = "while"
    /\ ~bucket_trades_kept(call.bucket_trades, call.no_of_slices, call.bucket_bounds)
    /\ \E p \in Outputs(call.bucket_placement_func, call.no_of_slices) :
           call' = [call EXCEPT
                      !.bucket_trades = _get_execution_times(call.bucket_bounds, call.i, p),
                      !.calls = (@ + 1) % 2]
    /\ UNCHANGED <<bmk, rl, env, broker>>

(* lines 164, 167: the sample is kept; the for loop goes on or ends *)
KeepSample ==
    /\ call.fn = "_sample_execution_times" /\ call.pc = "while"
    /\ bucket_trades_kept(call.bucket_trades, call.no_of_slices, call.bucket_bounds)
    /\ call' = [call EXCEPT
                  !.exec_times = Append(@, call.bucket_trades),
                  !.i = @ + 1,
                  !.pc = IF call.i = Len(call.bucket_bounds) - 1 THEN "done" ELSE "for"]
    /\ UNCHANGED <<bmk, rl, env, broker>>

NextSample == GetExecutionTimes \/ Resample \/ KeepSample

SpecSample == InitSample /\ [][NextSample]_vars

(* a resampling that draws a sample the loop keeps *)
ResampleKept ==
    Resample /\ bucket_trades_kept(call.bucket_trades', call.no_of_slices,
                                   call.bucket_bounds)

(* SpecSampleFair: the interpreter runs on, and a sample that the          *)
(* placement function can return at every call is returned at some call    *)
SpecSampleFair ==
    /\ SpecSample
    /\ WF_vars(GetExecutionTimes)
    /\ WF_vars(KeepSample)
    /\ WF_vars(Resample)
    /\ WF_vars(ResampleKept)

\* C28: for every placement function and every bucket set of the
\* partitioner the loops of decision-time sampling come to their end, with
\* no_of_slices pairwise distinct decision times, none of them a bucket
\* bound, for every bucket.
C28_SamplingTerminates ==
    <>(/\ call.pc = "done"
       /\ Len(call.exec_times) = Len(call.bucket_bounds) - 1
       /\ \A i \in DOMAIN call.exec_times :
             bucket_trades_kept(call.exec_times[i], call.no_of_slices,
                                call.bucket_bounds))

----------------------------------------------------------------------------
(* The remaining-volume counters of a schedule over an episode *)

(* what the global counter is ahead of the bucket counters by *)
Surplus(algo) == algo.vol_remaining - SumSeq(algo.bucket_vol_remaining)

Conserved(algo) ==
    ("vol_remaining" \in DOMAIN algo) =>
        Surplus(algo) = algo.volume - SumSeq(algo.bucket_volumes)

(* the call just made was made after the cursor had passed the last bucket *)
PastEpisode == call.fn = "update_remaining_volume" /\ call.raised = "IndexError"

EpisodeCalls == {"get_next_event", "get_order_at_event", "update_remaining_volume"}

\* C31: in every state a schedule reaches during an episode the global
\* remaining volume minus the sum of the bucket remaining volumes equals
\* the total volume minus the sum of the bucket volumes; no call of the
\* episode raises a counter, and none changes bucket_volumes or the total
\* volume.
C31_RemainingVolumesConserved ==
    /\ [](~PastEpisode => Conserved(bmk) /\ Conserved(rl))
    /\ [][(Driven /\ call'.fn \in EpisodeCalls) =>
            /\ Target'.vol_remaining <= Target.vol_remaining
            /\ \A i \in DOMAIN Target.bucket_vol_remaining :
                   Target'.bucket_vol_remaining[i] <= Target.bucket_vol_remaining[i]
            /\ Target'.bucket_volumes = Target.bucket_volumes
            /\ Target'.volume = Target.volume
            /\ bmk'.bucket_volumes = bmk.bucket_volumes]_vars

\* fills were taken off two buckets of the adaptive schedule
C31_Witness ==
    /\ call.fn = "update_remaining_volume" /\ call.raised = "no"
    /\ call.target = "rl"
    /\ call.args.trade_log # NoLog /\ call.args.trade_log.quantity > 0
    /\ rl.bucket_idx >= 1
    /\ rl.bucket_vol_remaining[1] < rl.bucket_volumes[1]
    /\ rl.bucket_vol_remaining[2] < rl.bucket_volumes[2]
    /\ rl.vol_remaining < rl.volume

----------------------------------------------------------------------------
(* The adaptive allocation table over an episode *)

(* the row-major position of the cell under the cursors of a schedule *)
CursorPosition(algo) == algo.bucket_idx * algo.no_of_slices + algo.order_idx

CellAt(algo, table, p) ==
    table[(p \div algo.no_of_slices) + 1][(p % algo.no_of_slices) + 1]

Smaller(a, b) == IF a < b THEN a ELSE b

----------------------------------------------------------------------------
(* reset of a schedule after any calls *)

(* the state of a schedule at the start of an episode *)
AtEpisodeStart(algo) ==
    /\ algo.event_idx = 0 /\ algo.order_idx = 0 /\ algo.bucket_idx = 0
    /\ algo.vol_remaining = algo.volume
    /\ algo.bucket_vol_remaining = algo.bucket_volumes
    /\ DOMAIN algo.volumes_per_trade = DOMAIN algo.volumes_per_trade_default
    /\ \A i \in DOMAIN algo.volumes_per_trade :
           /\ DOMAIN algo.volumes_per_trade[i] = DOMAIN algo.volumes_per_trade_default[i]
           /\ \A j \in DOMAIN algo.volumes_per_trade[i] :
                  algo.volumes_per_trade[i][j] =
                      IF algo.kind = "RLAlgo" THEN 0
                      ELSE algo.volumes_per_trade_default[i][j]

\* C33: a schedule that reset() was just called on has its three cursors
\* at 0, its global remaining volume at the total volume, its bucket
\* remaining volumes at the bucket volumes and its allocation table equal
\* to the default table (benchmark) or all zero in the default table's
\* shape (adaptive); no get_next_event, get_order_at_event,
\* update_remaining_volume or reset call, returning or raising, changes
\* what reset() leaves, so reset() after any of them restores the state of
\* the start of the episode, which for the adaptive schedule is the state
\* its constructor leaves; reset() on a schedule just reset changes nothing.
C33_ResetRestoresEpisodeStart ==
    /\ [](call.fn = "reset" => AtEpisodeStart(Target) /\ reset(Target) = Target)
    /\ [](call.fn = "RLAlgo" => reset(rl) = rl)
    /\ [][(call'.fn \in EpisodeCalls \cup {"reset"}) =>
             /\ reset(Target') = reset(Target)
             /\ call'.fn = "reset" => Target' = reset(Target)]_vars

\* an adaptive schedule in its second bucket, part of its volume traded:
\* reset() puts the cursors and the counters back
C33_Witness ==
    /\ Driven /\ call.target = "rl"
    /\ rl.bucket_idx = 1 /\ rl.event_idx >= 2
    /\ rl.vol_remaining < rl.volume
    /\ rl.bucket_vol_remaining[1] < rl.bucket_volumes[1]
    /\ ~AtEpisodeStart(rl)
    /\ AtEpisodeStart(reset(rl))

----------------------------------------------------------------------------
(* The smallest benchmark schedule *)

(* without jitter the partition of an order no longer than the canonical   *)
(* bucket width is the order itself                                        *)
SingleBucketOrder ==
    /\ call.rand_bucket_bounds_width = 0
    /\ call.end_time - call.start_time > 0
    /\ call.end_time - call.start_time <= _bucket_size(call.end_time - call.start_time)

\* C34: every benchmark schedule whose construction succeeded has at least
\* two buckets and at least one slice in every bucket (decision times and
\* slice volumes); the construction fails for an order that ends before it
\* starts, an order of zero duration, a slice count of 0, and an order
\* whose partition is a single bucket.
C34_AtLeastTwoBucketsOneSlice ==
    /\ Constructed(bmk) =>
           /\ bmk.buckets.n_buckets >= 2
           /\ Len(bmk.buckets.bucket_bounds) = bmk.buckets.n_buckets + 1
           /\ Len(bmk.bucket_volumes) = bmk.buckets.n_buckets
           /\ bmk.no_of_slices >= 1
           /\ Len(bmk.execution_times) = bmk.buckets.n_buckets
           /\ Len(bmk.volumes_per_trade) = bmk.buckets.n_buckets
           /\ \A i \in 1..bmk.buckets.n_buckets :
                  /\ Len(bmk.execution_times[i]) = bmk.no_of_slices
                  /\ Len(bmk.volumes_per_trade[i]) = bmk.no_of_slices
    /\ (/\ bmk # NoAlgo
        /\ \/ call.end_time <= call.start_time
           \/ call.no_of_slices = 0
           \/ SingleBucketOrder) => bmk.raised # "no"

\* the construction for an order of one slice per bucket that is exactly
\* one bucket width long failed at the split across buckets
C34_Witness ==
    /\ bmk # NoAlgo /\ bmk.raised = "ZeroDivisionError"
    /\ call.no_of_slices >= 1
    /\ SingleBucketOrder

====
